---- MODULE Spec2Model ----
(***************************************************************************)
(* Model of the persistence layer of GC_V2: the useDatabase hook           *)
(* (src/src/hooks/useDatabase.ts) over the two SQLite files "main" and     *)
(* "archive".                                                              *)
(*                                                                         *)
(* A store is the content of one database file: the clients relation, the  *)
(* frais and telephones relations (kept in rowid order; their own id       *)
(* column is never selected by any statement of the program) and the       *)
(* AUTOINCREMENT counter of clients.  Every SQL statement is an operator   *)
(* on a store that either succeeds with a new store or fails leaving the   *)
(* store untouched (SQLite statements are atomic).  Every exported         *)
(* function of the hook is an operator that issues its statements in the   *)
(* order of the source and stops at the first one that throws.  A          *)
(* statement throws when a schema constraint rejects it, or when the       *)
(* backend fails it (I/O error, disk full): the input `fault` of a call is *)
(* the number of the statement the backend fails, 0 for none.              *)
(*                                                                         *)
(* State: db, the content of the two files; last, the last call of the     *)
(* hook and how it ended; calls, the number of calls made so far; pressed, *)
(* the last press of the import button and how it ended; applied, the last *)
(* application of a pure function of src/utils: its argument and result;   *)
(* hook, the state of each mounted useDatabase (dbRef, isReady, error);     *)
(* connections, the number of open connections to each file; appClients,   *)
(* the `clients` list App holds in memory; tasks, the asynchronous calls that *)
(* have started, each with its position; flags, the busy flags of the     *)
(* handlers (isImporting, isExporting, formSubmitting).  The calls of       *)
(* Spec and the presses of SpecImport are made on hooks that are ready;    *)
(* mounting, unmounting and the connections are followed in SpecHooks.     *)
(***************************************************************************)
EXTENDS Integers, Sequences, FiniteSets, TLC

VARIABLES db, last, calls, pressed, applied, hook, connections, appClients, tasks,
          flags

vars == <<db, last, calls, pressed, applied, hook, connections, appClients, tasks, flags>>

(***************************************************************************)
(* Bounds and inputs                                                       *)
(***************************************************************************)

\* largest value the AUTOINCREMENT counter of a store's clients relation takes
MaxId == 2

\* length of the call sequences explored
MaxCalls == 3

\* number of presses of the import button explored
MaxPresses == 2

\* largest number of connections open on one file
MaxConnections == 3

\* largest maxRetries given to withErrorHandling
MaxRetries == 2

\* number of calls made on the hooks of a mounted application
MaxHookCalls == 1

\* number of calls of store functions that may be suspended at their statements
MaxAsyncCalls == 2

DatabaseName == {"main", "archive"}

\* NULL in a TEXT column
Nil == "nil"

\* stands for the float NaN (Number(undefined)): not finite, NULL when bound to
\* a statement, the id of no row
NaN == -1

\* stands for an insert result whose insertId is undefined
Undefined == -2

Fee1 == [type |-> "livraison", montant |-> 10]

Fee2 == [type |-> "emballage", montant |-> 5]

Phone1 == [numero |-> "0551234567"]

\* payloads (ClientPayload) the callers pass; R3 collides with R1 on the name
\* and with R2 on the page
R1 == [nom |-> "a", page |-> 1, note |-> "", montantTotal |-> 0, montantRestant |-> 0,
       dateAjout |-> "01/01/2024", statut |-> FALSE,
       frais |-> <<>>, telephones |-> <<>>]

R2 == [nom |-> "b", page |-> 2, note |-> "vip", montantTotal |-> 500, montantRestant |-> 200,
       dateAjout |-> "02/01/2024", statut |-> TRUE,
       frais |-> <<Fee1, Fee1>>, telephones |-> <<Phone1>>]

R3 == [nom |-> "a", page |-> 2, note |-> "x", montantTotal |-> 70, montantRestant |-> 70,
       dateAjout |-> "03/01/2024", statut |-> FALSE,
       frais |-> <<Fee2>>, telephones |-> <<>>]

Payloads == {R1, R2, R3}

\* identifiers a caller may pass: those the store can have assigned, plus one
\* it never assigns
Ids == 1..(MaxId + 1)

(***************************************************************************)
(* The schema and the SQL statements                                       *)
(***************************************************************************)

\* a database file that open() has just created: no row, and the connection
\* does not enforce foreign keys (the default of SQLite)
NewFile == [clients |-> {}, frais |-> <<>>, telephones |-> <<>>, seq |-> 0,
            foreignKeys |-> FALSE]

\* mutant: the PRAGMA is not issued
ensureSchemaNoPragma(d) == d

\* PRAGMA foreign_keys = ON, then CREATE TABLE / CREATE INDEX IF NOT EXISTS,
\* which leave existing relations and their rows as they are
ensureSchema(d) == [d EXCEPT !.foreignKeys = TRUE]

ClientIds(d) == {r.id : r \in d.clients}

\* a statement that throws changes nothing; error is "constraint" when the
\* schema rejects the statement and "io" when the backend fails it
Failed(d, error) == [ok |-> FALSE, db |-> d, insertId |-> Undefined, error |-> error]

Done(d) == [ok |-> TRUE, db |-> d, insertId |-> Undefined, error |-> "none"]

\* mutant: the schema declares UNIQUE on nom only
UniqueViolationNameOnly(d, nom, page, self) ==
  \E r \in d.clients : r.id # self /\ r.nom = nom

\* nom TEXT NOT NULL UNIQUE, page INTEGER NOT NULL UNIQUE
UniqueViolation(d, nom, page, self) ==
  \E r \in d.clients : r.id # self /\ (r.nom = nom \/ r.page = page)

\* INSERT INTO clients (...) VALUES (...): AUTOINCREMENT never reuses an id
InsertClientRow(d, p) ==
  IF UniqueViolation(d, p.nom, p.page, 0) THEN Failed(d, "constraint")
  ELSE LET id == d.seq + 1
           row == [id |-> id, nom |-> p.nom, page |-> p.page, note |-> p.note,
                   montantTotal |-> p.montantTotal, montantRestant |-> p.montantRestant,
                   dateAjout |-> p.dateAjout, statut |-> IF p.statut THEN 1 ELSE 0]
       IN [ok |-> TRUE,
           db |-> [d EXCEPT !.clients = @ \cup {row}, !.seq = id],
           insertId |-> id, error |-> "none"]

\* FOREIGN KEY (client_id) REFERENCES clients(id), client_id NOT NULL
ForeignKeyViolation(d, clientId) ==
  clientId = NaN \/ (d.foreignKeys /\ clientId \notin ClientIds(d))

\* INSERT INTO frais (client_id, type, montant) VALUES (?, ?, ?)
InsertFeeRow(d, clientId, fee) ==
  IF ForeignKeyViolation(d, clientId) THEN Failed(d, "constraint")
  ELSE Done([d EXCEPT !.frais = Append(@, [clientId |-> clientId, type |-> fee.type,
                                            montant |-> fee.montant])])

\* INSERT INTO telephones (client_id, numero) VALUES (?, ?)
InsertPhoneRow(d, clientId, phone) ==
  IF ForeignKeyViolation(d, clientId) THEN Failed(d, "constraint")
  ELSE Done([d EXCEPT !.telephones = Append(@, [clientId |-> clientId,
                                                 numero |-> phone.numero])])

\* mutant: the fees of the client are not deleted
DeleteFeesOfNothing(d, clientId) == Done(d)

\* DELETE FROM frais WHERE client_id = ?
DeleteFeesOf(d, clientId) ==
  LET keep(row) == row.clientId # clientId
  IN Done([d EXCEPT !.frais = SelectSeq(@, keep)])

\* DELETE FROM telephones WHERE client_id = ?
DeletePhonesOf(d, clientId) ==
  LET keep(row) == row.clientId # clientId
  IN Done([d EXCEPT !.telephones = SelectSeq(@, keep)])

\* mutant: the schema declares no ON DELETE CASCADE
DeleteClientRowNoCascade(d, clientId) ==
  Done([d EXCEPT !.clients = {r \in @ : r.id # clientId}])

\* DELETE FROM clients WHERE id = ?, with ON DELETE CASCADE of both child relations
DeleteClientRow(d, clientId) ==
  LET keep(row) == ~d.foreignKeys \/ row.clientId # clientId
  IN Done([d EXCEPT !.clients = {r \in @ : r.id # clientId},
                    !.frais = SelectSeq(@, keep),
                    !.telephones = SelectSeq(@, keep)])

\* mutant: the UPDATE is not checked against the UNIQUE constraints
UpdateClientRowUnchecked(d, clientId, p) ==
  IF clientId \notin ClientIds(d) THEN Done(d)
  ELSE LET row == [id |-> clientId, nom |-> p.nom, page |-> p.page, note |-> p.note,
                   montantTotal |-> p.montantTotal, montantRestant |-> p.montantRestant,
                   dateAjout |-> p.dateAjout, statut |-> IF p.statut THEN 1 ELSE 0]
       IN Done([d EXCEPT !.clients = {r \in @ : r.id # clientId} \cup {row}])

\* UPDATE clients SET nom = ?, page = ?, ... WHERE id = ?: no row matched is
\* not an error
UpdateClientRow(d, clientId, p) ==
  IF clientId \notin ClientIds(d) THEN Done(d)
  ELSE IF UniqueViolation(d, p.nom, p.page, clientId) THEN Failed(d, "constraint")
  ELSE LET row == [id |-> clientId, nom |-> p.nom, page |-> p.page, note |-> p.note,
                   montantTotal |-> p.montantTotal, montantRestant |-> p.montantRestant,
                   dateAjout |-> p.dateAjout, statut |-> IF p.statut THEN 1 ELSE 0]
       IN Done([d EXCEPT !.clients = {r \in @ : r.id # clientId} \cup {row}])

\* UPDATE clients SET statut = ? WHERE id = ?
UpdateStatutRow(d, clientId, nextStatus) ==
  Done([d EXCEPT !.clients =
          {IF r.id = clientId THEN [r EXCEPT !.statut = IF nextStatus THEN 1 ELSE 0] ELSE r
             : r \in @}])

\* DELETE FROM telephones
DeleteAllPhones(d) == Done([d EXCEPT !.telephones = <<>>])

\* DELETE FROM frais
DeleteAllFees(d) == Done([d EXCEPT !.frais = <<>>])

\* DELETE FROM clients, cascading; the AUTOINCREMENT counter is kept
DeleteAllClients(d) ==
  Done([d EXCEPT !.clients = {},
                 !.frais = IF d.foreignKeys THEN <<>> ELSE @,
                 !.telephones = IF d.foreignKeys THEN <<>> ELSE @])

\* mutant: the duplicate query compares the name only
SelectDuplicateByName(d, nom, page) == {r.id : r \in {x \in d.clients : x.nom = nom}}

\* SELECT id FROM clients WHERE nom = ? OR page = ? LIMIT 1
SelectDuplicate(d, nom, page) == {r.id : r \in {x \in d.clients : x.nom = nom \/ x.page = page}}

\* statement number n of a call: the backend fails it when n = fault, otherwise
\* it has the result res
Issue(n, fault, d, res) == IF n = fault THEN Failed(d, "io") ELSE res

(***************************************************************************)
(* The functions of useDatabase                                            *)
(***************************************************************************)

Threw(d, error) == [db |-> d, threw |-> TRUE, error |-> error, value |-> Undefined]

Returned(d, value) == [db |-> d, threw |-> FALSE, error |-> "none", value |-> value]

\* Number(insertResult.insertId)
ToNumber(insertId) == IF insertId = Undefined THEN NaN ELSE insertId

IsFinite(x) == x # NaN

RECURSIVE insertFees(_, _, _, _, _)
\* one INSERT per fee, in order; n is the number of the next statement
insertFees(d, clientId, fees, n, fault) ==
  IF fees = <<>> THEN [ok |-> TRUE, db |-> d, n |-> n, error |-> "none"]
  ELSE LET r == Issue(n, fault, d, InsertFeeRow(d, clientId, Head(fees)))
       IN IF ~r.ok THEN [ok |-> FALSE, db |-> r.db, n |-> n, error |-> r.error]
          ELSE insertFees(r.db, clientId, Tail(fees), n + 1, fault)

RECURSIVE insertPhones(_, _, _, _, _)
\* one INSERT per phone, in order
insertPhones(d, clientId, phones, n, fault) ==
  IF phones = <<>> THEN [ok |-> TRUE, db |-> d, n |-> n, error |-> "none"]
  ELSE LET r == Issue(n, fault, d, InsertPhoneRow(d, clientId, Head(phones)))
       IN IF ~r.ok THEN [ok |-> FALSE, db |-> r.db, n |-> n, error |-> r.error]
          ELSE insertPhones(r.db, clientId, Tail(phones), n + 1, fault)

\* createClient(payload); noInsertId: the insert result carries no insertId
createClient(d, payload, fault, noInsertId) ==
  LET insertResult == Issue(1, fault, d, InsertClientRow(d, payload))
      clientId == ToNumber(IF noInsertId THEN Undefined ELSE insertResult.insertId)
      fees == insertFees(insertResult.db, clientId, payload.frais, 2, fault)
      phones == insertPhones(fees.db, clientId, payload.telephones, fees.n, fault)
  IN IF ~insertResult.ok THEN Threw(insertResult.db, insertResult.error)
     ELSE IF ~IsFinite(clientId) THEN Threw(insertResult.db, "invalid insert")
     ELSE IF ~fees.ok THEN Threw(fees.db, fees.error)
     ELSE IF ~phones.ok THEN Threw(phones.db, phones.error)
     ELSE Returned(phones.db, clientId)

\* updateClient(clientId, payload)
updateClient(d, clientId, payload, fault) ==
  LET update == Issue(1, fault, d, UpdateClientRow(d, clientId, payload))
      delFees == Issue(2, fault, update.db, DeleteFeesOf(update.db, clientId))
      fees == insertFees(delFees.db, clientId, payload.frais, 3, fault)
      delPhones == Issue(fees.n, fault, fees.db, DeletePhonesOf(fees.db, clientId))
      phones == insertPhones(delPhones.db, clientId, payload.telephones, fees.n + 1, fault)
  IN IF ~update.ok THEN Threw(update.db, update.error)
     ELSE IF ~delFees.ok THEN Threw(delFees.db, delFees.error)
     ELSE IF ~fees.ok THEN Threw(fees.db, fees.error)
     ELSE IF ~delPhones.ok THEN Threw(delPhones.db, delPhones.error)
     ELSE IF ~phones.ok THEN Threw(phones.db, phones.error)
     ELSE Returned(phones.db, Undefined)

\* deleteClient(clientId)
deleteClient(d, clientId, fault) ==
  LET r == Issue(1, fault, d, DeleteClientRow(d, clientId))
  IN IF ~r.ok THEN Threw(r.db, r.error) ELSE Returned(r.db, Undefined)

\* toggleClientStatus(clientId, nextStatus)
toggleClientStatus(d, clientId, nextStatus, fault) ==
  LET r == Issue(1, fault, d, UpdateStatutRow(d, clientId, nextStatus))
  IN IF ~r.ok THEN Threw(r.db, r.error) ELSE Returned(r.db, Undefined)

\* mutant: the fees are deleted before the phones
clearAllDataFeesFirst(d, fault) ==
  LET fees == Issue(1, fault, d, DeleteAllFees(d))
      phones == Issue(2, fault, fees.db, DeleteAllPhones(fees.db))
      clients == Issue(3, fault, phones.db, DeleteAllClients(phones.db))
  IN IF ~fees.ok THEN Threw(fees.db, fees.error)
     ELSE IF ~phones.ok THEN Threw(phones.db, phones.error)
     ELSE IF ~clients.ok THEN Threw(clients.db, clients.error)
     ELSE Returned(clients.db, Undefined)

\* clearAllData()
clearAllData(d, fault) ==
  LET phones == Issue(1, fault, d, DeleteAllPhones(d))
      fees == Issue(2, fault, phones.db, DeleteAllFees(phones.db))
      clients == Issue(3, fault, fees.db, DeleteAllClients(fees.db))
  IN IF ~phones.ok THEN Threw(phones.db, phones.error)
     ELSE IF ~fees.ok THEN Threw(fees.db, fees.error)
     ELSE IF ~clients.ok THEN Threw(clients.db, clients.error)
     ELSE Returned(clients.db, Undefined)

RECURSIVE OrderByPage(_)
\* ORDER BY page ASC over a set of client rows
OrderByPage(rows) ==
  IF rows = {} THEN <<>>
  ELSE LET first == CHOOSE r \in rows : \A o \in rows : r.page <= o.page
       IN <<first>> \o OrderByPage(rows \ {first})

RECURSIVE InsertSorted(_, _)
\* place client c after every element whose page is not greater (stable)
InsertSorted(sorted, c) ==
  IF sorted = <<>> THEN <<c>>
  ELSE IF Head(sorted).page <= c.page THEN <<Head(sorted)>> \o InsertSorted(Tail(sorted), c)
  ELSE <<c>> \o sorted

RECURSIVE SortByPage(_)
\* Array.prototype.sort((a, b) => a.page - b.page)
SortByPage(clients) ==
  IF clients = <<>> THEN <<>>
  ELSE InsertSorted(SortByPage(SubSeq(clients, 1, Len(clients) - 1)), clients[Len(clients)])

\* mutant: a client is built from its fee and phone rows, so that a record
\* without any is not returned
mapRowsToClientsFromChildren(clientRows, feeRows, phoneRows) ==
  LET feesOf(id) == LET mine(row) == row.clientId = id IN SelectSeq(feeRows, mine)
      phonesOf(id) == LET mine(row) == row.clientId = id IN SelectSeq(phoneRows, mine)
      hasChildren(row) == feesOf(row.id) # <<>> \/ phonesOf(row.id) # <<>>
      kept == SelectSeq(clientRows, hasChildren)
      client(row) ==
        [id |-> row.id, nom |-> row.nom, page |-> row.page,
         note |-> IF row.note = Nil THEN "" ELSE row.note,
         montantTotal |-> row.montantTotal, montantRestant |-> row.montantRestant,
         dateAjout |-> row.dateAjout, statut |-> (row.statut = 1),
         frais |-> [i \in 1..Len(feesOf(row.id)) |->
                      [type |-> feesOf(row.id)[i].type, montant |-> feesOf(row.id)[i].montant]],
         telephones |-> [i \in 1..Len(phonesOf(row.id)) |->
                           [numero |-> phonesOf(row.id)[i].numero]]]
  IN SortByPage([i \in 1..Len(kept) |-> client(kept[i])])

\* mapRowsToClients(clientRows, feeRows, phoneRows)
mapRowsToClients(clientRows, feeRows, phoneRows) ==
  LET feesOf(id) == LET mine(row) == row.clientId = id IN SelectSeq(feeRows, mine)
      phonesOf(id) == LET mine(row) == row.clientId = id IN SelectSeq(phoneRows, mine)
      client(row) ==
        [id |-> row.id, nom |-> row.nom, page |-> row.page,
         note |-> IF row.note = Nil THEN "" ELSE row.note,
         montantTotal |-> row.montantTotal, montantRestant |-> row.montantRestant,
         dateAjout |-> row.dateAjout, statut |-> (row.statut = 1),
         frais |-> [i \in 1..Len(feesOf(row.id)) |->
                      [type |-> feesOf(row.id)[i].type, montant |-> feesOf(row.id)[i].montant]],
         telephones |-> [i \in 1..Len(phonesOf(row.id)) |->
                           [numero |-> phonesOf(row.id)[i].numero]]]
  IN SortByPage([i \in 1..Len(clientRows) |-> client(clientRows[i])])

\* loadClients(): ensureSchema, then the three SELECTs
loadClients(d, fault) ==
  LET schema == Issue(1, fault, d, Done(ensureSchema(d)))
      clientRows == OrderByPage(schema.db.clients)
      fraisRows == schema.db.frais
      phoneRows == schema.db.telephones
  IN IF ~schema.ok THEN Threw(schema.db, schema.error)
     ELSE IF fault \in 2..4 THEN Threw(schema.db, "io")
     ELSE Returned(schema.db, mapRowsToClients(clientRows, fraisRows, phoneRows))

\* the payload of a loaded client (ClientPayload = Omit<ClientWithRelations, 'id'>)
PayloadOf(c) ==
  [nom |-> c.nom, page |-> c.page, note |-> c.note, montantTotal |-> c.montantTotal,
   montantRestant |-> c.montantRestant, dateAjout |-> c.dateAjout, statut |-> c.statut,
   frais |-> c.frais, telephones |-> c.telephones]

\* checkDuplicateInDb(db, client): TRUE when it throws
checkDuplicateInDb(d, client) == SelectDuplicate(d, client.nom, client.page) # {}

ThrewBoth(dbs, error) == [dbs |-> dbs, threw |-> TRUE, error |-> error, value |-> Undefined]

\* mutant: the source row is deleted before the destination is written
transferClientDeleteFirst(dbs, src, dst, clientId, clientData, fault, noInsertId) ==
  LET removed == DeleteClientRow(dbs[src], clientId)
      insertResult == Issue(3, fault, dbs[dst], InsertClientRow(dbs[dst], clientData))
      newClientId == ToNumber(IF noInsertId THEN Undefined ELSE insertResult.insertId)
      fees == insertFees(insertResult.db, newClientId, clientData.frais, 4, fault)
      phones == insertPhones(fees.db, newClientId, clientData.telephones, fees.n, fault)
      moved(d) == [dbs EXCEPT ![src] = removed.db, ![dst] = d]
  IN IF fault \in {1, 2} THEN ThrewBoth(dbs, "io")
     ELSE IF checkDuplicateInDb(dbs[dst], clientData) THEN ThrewBoth(dbs, "duplicate")
     ELSE IF ~insertResult.ok THEN ThrewBoth(moved(insertResult.db), insertResult.error)
     ELSE IF ~fees.ok THEN ThrewBoth(moved(fees.db), fees.error)
     ELSE IF ~phones.ok THEN ThrewBoth(moved(phones.db), phones.error)
     ELSE [dbs |-> moved(phones.db), threw |-> FALSE, error |-> "none", value |-> Undefined]

\* the body shared by archiveClient and unarchiveClient: the hook of store src
\* moves clientData into store dst and deletes row clientId of src
transferClient(dbs, src, dst, clientId, clientData, fault, noInsertId) ==
  LET opened == Issue(1, fault, dbs[dst], Done(ensureSchema(dbs[dst])))
      duplicate == Issue(2, fault, opened.db, Done(opened.db))
      insertResult == Issue(3, fault, opened.db, InsertClientRow(opened.db, clientData))
      newClientId == ToNumber(IF noInsertId THEN Undefined ELSE insertResult.insertId)
      fees == insertFees(insertResult.db, newClientId, clientData.frais, 4, fault)
      phones == insertPhones(fees.db, newClientId, clientData.telephones, fees.n, fault)
      inDst(d) == [dbs EXCEPT ![dst] = d]
      removed == Issue(phones.n, fault, inDst(phones.db)[src],
                       DeleteClientRow(inDst(phones.db)[src], clientId))
  IN IF ~opened.ok THEN ThrewBoth(dbs, opened.error)
     ELSE IF ~duplicate.ok THEN ThrewBoth(inDst(opened.db), duplicate.error)
     ELSE IF checkDuplicateInDb(opened.db, clientData)
          THEN ThrewBoth(inDst(opened.db), "duplicate")
     ELSE IF ~insertResult.ok THEN ThrewBoth(inDst(insertResult.db), insertResult.error)
     ELSE IF ~fees.ok THEN ThrewBoth(inDst(fees.db), fees.error)
     ELSE IF ~phones.ok THEN ThrewBoth(inDst(phones.db), phones.error)
     ELSE IF ~removed.ok THEN ThrewBoth(inDst(phones.db), removed.error)
     ELSE [dbs |-> [inDst(phones.db) EXCEPT ![src] = removed.db],
           threw |-> FALSE, error |-> "none", value |-> Undefined]

\* mainDb.archiveClient(clientId, clientData)
archiveClient(dbs, clientId, clientData, fault, noInsertId) ==
  transferClient(dbs, "main", "archive", clientId, clientData, fault, noInsertId)

\* archiveDb.unarchiveClient(clientId, clientData)
unarchiveClient(dbs, clientId, clientData, fault, noInsertId) ==
  transferClient(dbs, "archive", "main", clientId, clientData, fault, noInsertId)

(***************************************************************************)
(* JSON values and the normalizers of src/utils/format.ts                  *)
(*                                                                         *)
(* A parsed JSON value carries its JavaScript type in t.  A JavaScript     *)
(* string is the sequence of its characters, so that trim, length and the  *)
(* tests on characters are computed; Text gives the text stored in a       *)
(* column.  Numbers are integers, NaN being the float NaN.                 *)
(***************************************************************************)

undefined == [t |-> "undefined"]

null == [t |-> "null"]

Str(chars) == [t |-> "string", v |-> chars]

Num(n) == [t |-> "number", v |-> n]

Bool(b) == [t |-> "boolean", v |-> b]

Arr(items) == [t |-> "array", v |-> items]

Obj(fields) == [t |-> "object", v |-> fields]

\* value.key, and value?.key: undefined when the property is missing
Get(value, key) ==
  IF value.t = "object" /\ key \in DOMAIN value.v THEN value.v[key] ELSE undefined

\* !!value
Truthy(value) ==
  CASE value.t \in {"undefined", "null"} -> FALSE
    [] value.t = "boolean" -> value.v
    [] value.t = "number" -> value.v # 0 /\ value.v # NaN
    [] value.t = "string" -> value.v # <<>>
    [] OTHER -> TRUE

IsWhiteSpace(char) == char \in {" ", "\t", "\n"}

RECURSIVE trimStart(_)
trimStart(chars) ==
  IF chars # <<>> /\ IsWhiteSpace(Head(chars)) THEN trimStart(Tail(chars)) ELSE chars

RECURSIVE trimEnd(_)
trimEnd(chars) ==
  IF chars # <<>> /\ IsWhiteSpace(chars[Len(chars)])
  THEN trimEnd(SubSeq(chars, 1, Len(chars) - 1)) ELSE chars

\* String.prototype.trim
trim(chars) == trimEnd(trimStart(chars))

RECURSIVE Text(_)
\* the text made of the characters
Text(chars) == IF chars = <<>> THEN "" ELSE Head(chars) \o Text(Tail(chars))

Digits == <<"0", "1", "2", "3", "4", "5", "6", "7", "8", "9">>

IsDigit(char) == \E i \in DOMAIN Digits : Digits[i] = char

DigitValue(char) == (CHOOSE i \in DOMAIN Digits : Digits[i] = char) - 1

RECURSIVE DecimalValue(_)
\* the value of a non-empty sequence of digits
DecimalValue(chars) ==
  IF Len(chars) = 1 THEN DigitValue(chars[1])
  ELSE 10 * DecimalValue(SubSeq(chars, 1, Len(chars) - 1)) + DigitValue(chars[Len(chars)])

\* Number(string): white space is trimmed, the empty string is 0, an integer
\* literal with an optional sign is its value, anything else is NaN
StringToNumber(chars) ==
  LET s == trim(chars)
      unsigned == IF s # <<>> /\ Head(s) \in {"-", "+"} THEN Tail(s) ELSE s
  IN IF s = <<>> THEN 0
     ELSE IF unsigned = <<>> \/ \E i \in DOMAIN unsigned : ~IsDigit(unsigned[i]) THEN NaN
     ELSE IF Head(s) = "-" THEN 0 - DecimalValue(unsigned)
     ELSE DecimalValue(unsigned)

\* Number(value)
Number(value) ==
  CASE value.t = "number" -> value.v
    [] value.t = "string" -> StringToNumber(value.v)
    [] value.t = "boolean" -> IF value.v THEN 1 ELSE 0
    [] value.t = "null" -> 0
    [] value.t = "array" ->
         IF value.v = <<>> THEN 0
         ELSE IF Len(value.v) > 1 THEN NaN
         ELSE IF value.v[1].t \in {"null", "undefined"} THEN 0
         ELSE IF value.v[1].t = "number" THEN value.v[1].v
         ELSE IF value.v[1].t = "string" THEN StringToNumber(value.v[1].v)
         ELSE NaN
    [] OTHER -> NaN

\* normalizeAmount(value)
normalizeAmount(value) ==
  LET parsed == Number(value) IN IF IsFinite(parsed) THEN parsed ELSE 0

\* normalizeString(value)
normalizeString(value) == IF value.t = "string" THEN value.v ELSE <<>>

\* toLowerCase, then NFD with the combining marks removed, on one character of
\* the alphabet of the inputs (which has no accented letter)
ToAscii(char) ==
  CASE char \in {"O", "o"} -> "o"
    [] char \in {"U", "u"} -> "u"
    [] char \in {"I", "i"} -> "i"
    [] char \in {"N", "n"} -> "n"
    [] char \in {"P", "p"} -> "p"
    [] char \in {"A", "a"} -> "a"
    [] char \in {"Y", "y"} -> "y"
    [] char \in {"E", "e"} -> "e"
    [] OTHER -> char

\* normalizeStatus(value)
normalizeStatus(value) ==
  CASE value.t = "boolean" -> value.v
    [] value.t = "number" -> value.v = 1
    [] value.t = "string" ->
         LET normalized == trim(value.v)
             ascii == Text([i \in DOMAIN normalized |-> ToAscii(normalized[i])])
         IN ascii \in {"1", "true", "oui", "termine", "terminee", "paye", "payee",
                       "regle", "reglee", "solde", "soldes"}
    [] OTHER -> FALSE

pad(value) == IF value < 10 THEN "0" \o ToString(value) ELSE ToString(value)

\* formatDate(date): DD/MM/YYYY
formatDate(date) == pad(date.day) \o "/" \o pad(date.month) \o "/" \o ToString(date.year)

\* year is a leap year of the Gregorian calendar
IsLeapYear(year) == year % 4 = 0 /\ (year % 100 # 0 \/ year % 400 = 0)

\* the number of days of month (1..12) of year
DaysInMonth(year, month) ==
  IF month = 2 THEN (IF IsLeapYear(year) THEN 29 ELSE 28)
  ELSE IF month \in {4, 6, 9, 11} THEN 30 ELSE 31

\* the calendar day that lies day - 1 days after the first of month (1..12) of
\* year: a day past the end of the month runs into the next months, day 0 is
\* the last day of the month before
RECURSIVE DayOfMonth(_, _, _)
DayOfMonth(year, month, day) ==
  IF day < 1
  THEN LET y == IF month = 1 THEN year - 1 ELSE year
           m == IF month = 1 THEN 12 ELSE month - 1
       IN DayOfMonth(y, m, day + DaysInMonth(y, m))
  ELSE IF day > DaysInMonth(year, month)
  THEN DayOfMonth(IF month = 12 THEN year + 1 ELSE year,
                  IF month = 12 THEN 1 ELSE month + 1,
                  day - DaysInMonth(year, month))
  ELSE [day |-> day, month |-> month, year |-> year]

\* new Date(year, monthIndex, day) in local time: a year 0..99 is 1900 + year,
\* a month index outside 0..11 carries into the year, a day outside the month
\* carries into the months; the Date is never invalid for integers
newDate(year, monthIndex, day) ==
  LET full == IF year \in 0..99 THEN 1900 + year ELSE year
      y == full + (monthIndex \div 12)
      m == (monthIndex % 12) + 1
  IN DayOfMonth(y, m, day)

\* Number.isNaN(candidate.getTime())
IsInvalidDate(date) == date.day = NaN

\* the characters match /^(\d{2})\/(\d{2})\/(\d{4})$/
MatchesDdMmYyyy(chars) ==
  /\ Len(chars) = 10
  /\ \A i \in {1, 2, 4, 5, 7, 8, 9, 10} : IsDigit(chars[i])
  /\ chars[3] = "/" /\ chars[6] = "/"

\* the characters are a date of the form YYYY-MM-DD that names a calendar day
IsIsoDate(chars) ==
  /\ Len(chars) = 10
  /\ \A i \in {1, 2, 3, 4, 6, 7, 9, 10} : IsDigit(chars[i])
  /\ chars[5] = "-" /\ chars[8] = "-"
  /\ DecimalValue(SubSeq(chars, 6, 7)) \in 1..12
  /\ DecimalValue(SubSeq(chars, 9, 10)) \in
       1..DaysInMonth(DecimalValue(SubSeq(chars, 1, 4)), DecimalValue(SubSeq(chars, 6, 7)))

\* new Date(text) read in local time: a date-only ISO text is midnight UTC,
\* the day before in a time zone west of Greenwich; any other text of the
\* inputs explored is no date
newDateOfText(chars, west) ==
  IF IsIsoDate(chars)
  THEN DayOfMonth(DecimalValue(SubSeq(chars, 1, 4)), DecimalValue(SubSeq(chars, 6, 7)),
                  DecimalValue(SubSeq(chars, 9, 10)) - (IF west THEN 1 ELSE 0))
  ELSE [day |-> NaN, month |-> NaN, year |-> NaN]

\* formatDateForStorage(value), called on the day today
formatDateForStorage(value, today, west) ==
  IF ~Truthy(value) THEN formatDate(today)
  ELSE LET trimmed == trim(value.v)
           candidate ==
             IF MatchesDdMmYyyy(trimmed)
             THEN newDate(DecimalValue(SubSeq(trimmed, 7, 10)),
                          DecimalValue(SubSeq(trimmed, 4, 5)) - 1,
                          DecimalValue(SubSeq(trimmed, 1, 2)))
             ELSE newDateOfText(trimmed, west)
       IN formatDate(IF IsInvalidDate(candidate) THEN today ELSE candidate)

\* ensureArray(candidate): the truthy entries of an array, nothing otherwise
ensureArray(candidate) ==
  IF candidate.t # "array" THEN <<>>
  ELSE SelectSeq(candidate.v, Truthy)

\* mutant: only the clients container is read
normalizeParsedInputClientsOnly(raw) ==
  IF raw.t = "array" THEN ensureArray(raw)
  ELSE IF raw.t = "object"
  THEN IF ensureArray(Get(raw, "clients")) # <<>> THEN ensureArray(Get(raw, "clients"))
       ELSE <<raw>>
  ELSE <<>>

\* normalizeParsedInput(raw)
normalizeParsedInput(raw) ==
  IF raw.t = "array" THEN ensureArray(raw)
  ELSE IF raw.t = "object"
  THEN LET data == Get(raw, "data")
           collected == ensureArray(data)
                        \o (IF data.t = "object" THEN ensureArray(Get(data, "items")) ELSE <<>>)
                        \o ensureArray(Get(raw, "results"))
                        \o ensureArray(Get(raw, "clientes"))
                        \o ensureArray(Get(raw, "clients"))
       IN IF Len(collected) > 0 THEN collected ELSE <<raw>>
  ELSE <<>>

(***************************************************************************)
(* handleImportPress of useClientData                                      *)
(***************************************************************************)

\* JSON.parse(fileContent): a file is the value its text denotes, or text that
\* is no JSON; TRUE when it throws
JSONparseThrows(fileContent) == ~fileContent.json

JSONparse(fileContent) == fileContent.value

\* rawClient.dateAjout || formatDate(new Date()), as the TEXT column takes it
dateAjoutOf(rawClient, today) ==
  LET given == Get(rawClient, "dateAjout")
  IN IF ~Truthy(given) THEN formatDate(today)
     ELSE CASE given.t = "string" -> Text(given.v)
            [] given.t = "number" -> ToString(given.v)
            [] given.t = "boolean" -> "1"
            [] OTHER -> Nil

\* phoneEntries
phoneEntriesOf(rawClient) ==
  LET telephones == Get(rawClient, "telephones")
      trimmed(value) == IF value.t = "string" THEN trim(value.v) ELSE <<>>
      kept(value) == Len(trimmed(value)) > 0
      entries == IF telephones.t = "array" THEN SelectSeq(telephones.v, kept) ELSE <<>>
  IN [i \in DOMAIN entries |-> [numero |-> Text(trimmed(entries[i]))]]

\* feeEntries
feeEntriesOf(rawClient) ==
  LET frais == Get(rawClient, "frais")
      typeOf(fee) == trim(normalizeString(Get(fee, "type")))
      kept(fee) == Len(typeOf(fee)) > 0
      entries == IF frais.t = "array" THEN SelectSeq(frais.v, kept) ELSE <<>>
  IN [i \in DOMAIN entries |->
        [type |-> Text(typeOf(entries[i])),
         montant |-> normalizeAmount(Get(entries[i], "montant"))]]

\* the candidate is skipped before any statement: !nom || Number.isNaN(page)
Skipped(rawClient) ==
  \/ trim(normalizeString(Get(rawClient, "nom"))) = <<>>
  \/ Number(Get(rawClient, "page")) = NaN

\* the payload handed to createClient for a candidate that is not skipped
importPayload(rawClient, today) ==
  [nom |-> Text(trim(normalizeString(Get(rawClient, "nom")))),
   page |-> Number(Get(rawClient, "page")),
   note |-> Text(trim(normalizeString(Get(rawClient, "note")))),
   montantTotal |-> normalizeAmount(Get(rawClient, "montantTotal")),
   montantRestant |-> normalizeAmount(Get(rawClient, "montantRestant")),
   dateAjout |-> dateAjoutOf(rawClient, today),
   statut |-> normalizeStatus(Get(rawClient, "statut")),
   frais |-> feeEntriesOf(rawClient),
   telephones |-> phoneEntriesOf(rawClient)]

\* how a press of the import button ended: the store, the two counters and the
\* functions of the store it invoked, in order
Pressed(d, outcome, importedCount, skippedCount, invoked) ==
  [db |-> d, outcome |-> outcome, importedCount |-> importedCount,
   skippedCount |-> skippedCount, invoked |-> invoked]

\* mutant: the loop ends at the first createClient that throws
importLoopStopsOnThrow(run, normalizedClients, today, fault, noInsertId) ==
  IF normalizedClients = <<>> THEN run
  ELSE LET rawClient == Head(normalizedClients)
           created == createClient(run.db, importPayload(rawClient, today), 0, noInsertId)
       IN IF Skipped(rawClient)
          THEN [run EXCEPT !.skippedCount = @ + 1]
          ELSE IF created.threw
          THEN [run EXCEPT !.db = created.db, !.skippedCount = @ + 1,
                           !.invoked = Append(@, "createClient")]
          ELSE [run EXCEPT !.db = created.db, !.importedCount = @ + 1,
                           !.invoked = Append(@, "createClient")]

RECURSIVE importLoop(_, _, _, _, _)
\* for (const rawClient of normalizedClients); the backend fails statement
\* fault.statement of the fault.call-th function invoked on the store
importLoop(run, normalizedClients, today, fault, noInsertId) ==
  IF normalizedClients = <<>> THEN run
  ELSE LET rawClient == Head(normalizedClients)
           rest == Tail(normalizedClients)
           ordinal == Len(run.invoked) + 1
           created == createClient(run.db, importPayload(rawClient, today),
                                   IF fault.call = ordinal THEN fault.statement ELSE 0,
                                   noInsertId)
       IN IF Skipped(rawClient)
          THEN importLoop([run EXCEPT !.skippedCount = @ + 1], rest, today, fault, noInsertId)
          ELSE IF created.threw
          THEN importLoop([run EXCEPT !.db = created.db, !.skippedCount = @ + 1,
                                      !.invoked = Append(@, "createClient")],
                          rest, today, fault, noInsertId)
          ELSE importLoop([run EXCEPT !.db = created.db, !.importedCount = @ + 1,
                                      !.invoked = Append(@, "createClient")],
                          rest, today, fault, noInsertId)

\* mutant: the store is emptied before the confirmation is asked
handleImportPressClearFirst(d, isReady, isImporting, fileContent, userConfirmed, today, fault, noInsertId) ==
  LET normalizedClients == normalizeParsedInput(JSONparse(fileContent))
      cleared == clearAllData(d, IF fault.call = 1 THEN fault.statement ELSE 0)
      looped == importLoop(Pressed(cleared.db, "done", 0, 0, <<"clearAllData">>),
                           normalizedClients, today, fault, noInsertId)
  IN IF JSONparseThrows(fileContent) THEN Pressed(d, "invalid JSON", 0, 0, <<>>)
     ELSE IF Len(normalizedClients) = 0 THEN Pressed(d, "no candidate", 0, 0, <<>>)
     ELSE IF cleared.threw THEN Pressed(cleared.db, "error", 0, 0, <<"clearAllData">>)
     ELSE IF ~userConfirmed THEN Pressed(cleared.db, "cancelled", 0, 0, <<"clearAllData">>)
     ELSE [looped EXCEPT !.invoked = Append(@, "onLoadClients")]

\* handleImportPress() once the picked file has been read: fileContent is the
\* file, userConfirmed the answer to the confirmation (FALSE: cancelled or
\* dismissed), today the date of the clock
handleImportPress(d, isReady, isImporting, fileContent, userConfirmed, today, fault, noInsertId) ==
  LET normalizedClients == normalizeParsedInput(JSONparse(fileContent))
      cleared == clearAllData(d, IF fault.call = 1 THEN fault.statement ELSE 0)
      looped == importLoop(Pressed(cleared.db, "done", 0, 0, <<"clearAllData">>),
                           normalizedClients, today, fault, noInsertId)
  IN IF ~isReady THEN Pressed(d, "not ready", 0, 0, <<>>)
     ELSE IF isImporting THEN Pressed(d, "importing", 0, 0, <<>>)
     ELSE IF JSONparseThrows(fileContent) THEN Pressed(d, "invalid JSON", 0, 0, <<>>)
     ELSE IF Len(normalizedClients) = 0 THEN Pressed(d, "no candidate", 0, 0, <<>>)
     ELSE IF ~userConfirmed THEN Pressed(d, "cancelled", 0, 0, <<>>)
     ELSE IF cleared.threw THEN Pressed(cleared.db, "error", 0, 0, <<"clearAllData">>)
     ELSE [looped EXCEPT !.invoked = Append(@, "onLoadClients")]

(***************************************************************************)
(* The rules of src/utils/validation.ts                                    *)
(***************************************************************************)

\* validateName(name).isValid
validateName(name) ==
  LET trimmed == trim(name)
  IN /\ Len(trimmed) >= 2
     /\ Len(trimmed) <= 100
     /\ \A i \in DOMAIN trimmed : trimmed[i] \notin {"<", ">", "\"", "'", "&"}

\* validatePage(page).isValid; the numbers of the model are integers or NaN
validatePage(page) == page # NaN /\ page >= 1 /\ page <= 10000

\* validateAmount(amount).isValid
validateAmount(amount) == amount # NaN /\ amount >= 0 /\ amount <= 100000000

RECURSIVE LeadingDigits(_)
LeadingDigits(chars) ==
  IF chars # <<>> /\ IsDigit(Head(chars)) THEN <<Head(chars)>> \o LeadingDigits(Tail(chars))
  ELSE <<>>

\* parseFloat(string): the longest numeric prefix, NaN when there is none
parseFloat(chars) ==
  LET s == trimStart(chars)
      unsigned == IF s # <<>> /\ Head(s) \in {"-", "+"} THEN Tail(s) ELSE s
      digits == LeadingDigits(unsigned)
  IN IF digits = <<>> THEN NaN
     ELSE IF Head(s) = "-" THEN 0 - DecimalValue(digits)
     ELSE DecimalValue(digits)

\* validatePhoneNumber(phone).isValid: /^(?:(?:\+|00)213|0)[5-7]\d{8}$/ on the
\* number without its white space
validatePhoneNumber(phone) ==
  LET NotSpace(char) == ~IsWhiteSpace(char)
      compact == SelectSeq(phone, NotSpace)
      Local(k) == /\ Len(compact) = k + 9
                  /\ compact[k + 1] \in {"5", "6", "7"}
                  /\ \A i \in (k + 2)..(k + 9) : IsDigit(compact[i])
  IN \/ trim(phone) = <<>>
     \/ Len(compact) >= 1 /\ Text(SubSeq(compact, 1, 1)) = "0" /\ Local(1)
     \/ Len(compact) >= 4 /\ Text(SubSeq(compact, 1, 4)) = "+213" /\ Local(4)
     \/ Len(compact) >= 5 /\ Text(SubSeq(compact, 1, 5)) = "00213" /\ Local(5)

\* the amount validateImportedClient hands to validateAmount
AmountToValidate(value) ==
  CASE value.t = "string" -> parseFloat(value.v)
    [] value.t = "number" -> value.v
    [] OTHER -> NaN

\* validateImportedClient(client).isValid
validateImportedClient(client) ==
  LET nom == Get(client, "nom")
      page == Get(client, "page")
      montantTotal == Get(client, "montantTotal")
      montantRestant == Get(client, "montantRestant")
      telephones == Get(client, "telephones")
      frais == Get(client, "frais")
  IN /\ nom.t # "undefined" => nom.t = "string" /\ validateName(nom.v)
     /\ page.t # "undefined" => page.t = "number" /\ validatePage(page.v)
     /\ montantTotal.t # "undefined" => validateAmount(AmountToValidate(montantTotal))
     /\ montantRestant.t # "undefined" => validateAmount(AmountToValidate(montantRestant))
     /\ telephones.t = "array" =>
          \A i \in DOMAIN telephones.v :
            (telephones.v[i].t = "string" /\ trim(telephones.v[i].v) # <<>>)
              => validatePhoneNumber(telephones.v[i].v)
     /\ frais.t = "array" =>
          \A i \in DOMAIN frais.v :
            /\ Get(frais.v[i], "type").t = "string"
            /\ trim(Get(frais.v[i], "type").v) # <<>>
            /\ Get(frais.v[i], "montant").t # "undefined"
                 => validateAmount(AmountToValidate(Get(frais.v[i], "montant")))

(***************************************************************************)
(* Import files                                                            *)
(***************************************************************************)

Amel == Obj([nom |-> Str(<<"A", "m", "e", "l">>), page |-> Num(3),
             montantTotal |-> Str(<<"5", "0", "0">>),
             telephones |-> Arr(<<Str(<<"0", "5", "5", "1", "2", "3", "4", "5", "6", "7">>)>>)])

\* name to trim, page as a numeric string, a date, a fee without type
Bea == Obj([nom |-> Str(<<" ", "B", "e", "a">>), page |-> Str(<<"4">>),
            note |-> Str(<<"v", "i", "p">>), montantRestant |-> Num(20),
            dateAjout |-> Str(<<"0", "1", "/", "0", "2", "/", "2", "0", "2", "4">>),
            statut |-> Str(<<"O", "u", "i">>),
            frais |-> Arr(<<Obj([type |-> Str(<<"p", "o", "r", "t">>), montant |-> Num(10)]),
                            Obj([montant |-> Num(5)])>>)])

\* the page of Amel under another name
Cy == Obj([nom |-> Str(<<"C", "y">>), page |-> Num(3), statut |-> Bool(TRUE)])

\* the name of Amel on another page
Amy == Obj([nom |-> Str(<<"A", "m", "e", "l">>), page |-> Num(5)])

\* a name of white space
Blank == Obj([nom |-> Str(<<" ", " ">>), page |-> Num(6)])

NoPage == Obj([nom |-> Str(<<"D", "e", "e">>)])

\* the date under the alternate key
Eve == Obj([nom |-> Str(<<"E", "v", "e">>), page |-> Num(7),
            dateAdded |-> Str(<<"0", "5", "/", "0", "5", "/", "2", "0", "2", "4">>)])

\* one character of name, page 0, a negative amount, a phone that is no number
Zed == Obj([nom |-> Str(<<"Z">>), page |-> Num(0), montantTotal |-> Num(0 - 50),
            telephones |-> Arr(<<Str(<<"a", "b", "c">>)>>)])

Json(value) == [json |-> TRUE, value |-> value]

\* text that JSON.parse rejects
NotJson == [json |-> FALSE, value |-> undefined]

\* the contents of the files the user picks
FileContents ==
  { NotJson, Json(null), Json(Amel),
    Json(Arr(<<Amel>>)),
    Json(Arr(<<Amel, Blank, Bea>>)), Json(Arr(<<Amel, Cy, Bea>>)),
    Json(Arr(<<NoPage, Amel, Amy, Zed>>)),
    Json(Obj([clients |-> Arr(<<Eve, Bea>>)])),
    Json(Obj([data |-> Arr(<<>>), clients |-> Arr(<<>>)])) }

\* the dates of the clock
Today == {[day |-> 6, month |-> 11, year |-> 2026], [day |-> 15, month |-> 1, year |-> 2024]}

NoFault == [call |-> 0, statement |-> 0]

\* the failures of the backend during one import: statement `statement` of the
\* call-th function invoked on the store (1: clearAllData, then the createClient)
Faults ==
  {NoFault} \cup {[call |-> 1, statement |-> n] : n \in 1..3}
            \cup {[call |-> c, statement |-> n] : c \in 2..3, n \in 1..2}

(***************************************************************************)
(* The useDatabase hook: its connection and its readiness                  *)
(***************************************************************************)

\* the useDatabase calls of the mounted tree: two in App, two in the
\* useClientActions that App calls
Instances == {"App.mainDb", "App.archiveDb", "useClientActions.mainDb",
              "useClientActions.archiveDb"}

\* params.databaseName of each
FileOf(i) == IF i \in {"App.mainDb", "useClientActions.mainDb"} THEN "main" ELSE "archive"

\* dbRef.current === null
NullRef == [name |-> "none", open |-> FALSE, schema |-> FALSE]

\* useRef(null), useState(false), useState(null)
Unmounted == [mounted |-> FALSE, dbRef |-> NullRef, isReady |-> FALSE, error |-> "none"]

\* a hook whose initialisation succeeded
Ready(name) ==
  [mounted |-> TRUE, dbRef |-> [name |-> name, open |-> TRUE, schema |-> TRUE],
   isReady |-> TRUE, error |-> "none"]

\* what open() and ensureSchema() do in one initialisation
Outcomes == {"ok", "open throws", "ensureSchema throws"}

\* mutant: the hook is declared ready before the connection is opened
initializeDatabaseReadyFirst(h, name, outcome) ==
  CASE outcome = "open throws" ->
         [hook |-> [h EXCEPT !.mounted = TRUE, !.isReady = TRUE, !.error = "open failed"],
          opened |-> 0]
    [] outcome = "ensureSchema throws" ->
         [hook |-> [h EXCEPT !.mounted = TRUE, !.isReady = TRUE, !.error = "schema failed"],
          opened |-> 1]
    [] OTHER -> [hook |-> Ready(name), opened |-> 1]

\* the effect of useDatabase: initializeDatabase() has no await, so it runs to
\* its end when the effect runs and `cancelled` is still false; opened is the
\* number of connections it leaves open
initializeDatabase(h, name, outcome) ==
  CASE outcome = "open throws" ->
         [hook |-> [h EXCEPT !.mounted = TRUE, !.isReady = FALSE, !.error = "open failed"],
          opened |-> 0]
    [] outcome = "ensureSchema throws" ->
         [hook |-> [h EXCEPT !.mounted = TRUE, !.isReady = FALSE, !.error = "schema failed"],
          opened |-> 1]
    [] OTHER -> [hook |-> Ready(name), opened |-> 1]

\* the cleanup of the effect; closed is the number of connections it closes
cleanup(h) ==
  [hook |-> [h EXCEPT !.mounted = FALSE, !.isReady = FALSE, !.dbRef = NullRef],
   closed |-> IF h.dbRef # NullRef THEN 1 ELSE 0]

\* requireDb() throws
requireDbThrows(h) == h.dbRef = NullRef

\* the functions the hook returns
Operations == {"loadClients", "createClient", "updateClient", "deleteClient",
               "toggleClientStatus", "clearAllData", "archiveClient", "unarchiveClient"}

\* the card of R1 a screen may still show
Card == [id |-> 1] @@ R1

\* one call of function op of hook h, mounted on file name, with the arguments
\* a screen showing Card passes; opened: the file on which the call has
\* opened a connection that it leaves open, "none" when it opened none
useDatabaseCall(h, name, dbs, op) ==
  LET d == dbs[name]
      own(r) == [dbs |-> [dbs EXCEPT ![name] = r.db], threw |-> r.threw,
                 error |-> r.error, opened |-> "none"]
      moved(r, dst) == [dbs |-> r.dbs, threw |-> r.threw, error |-> r.error,
                        opened |-> dst]
  IN IF requireDbThrows(h)
     THEN [dbs |-> dbs, threw |-> TRUE, error |-> "Database not ready", opened |-> "none"]
     ELSE CASE op = "loadClients" -> own(loadClients(d, 0))
            [] op = "createClient" -> own(createClient(d, R1, 0, FALSE))
            [] op = "updateClient" -> own(updateClient(d, Card.id, R1, 0))
            [] op = "deleteClient" -> own(deleteClient(d, Card.id, 0))
            [] op = "toggleClientStatus" -> own(toggleClientStatus(d, Card.id, TRUE, 0))
            [] op = "clearAllData" -> own(clearAllData(d, 0))
            [] op = "archiveClient" ->
                 moved(transferClient(dbs, name, "archive", Card.id, Card, 0, FALSE), "archive")
            [] OTHER ->
                 moved(transferClient(dbs, name, "main", Card.id, Card, 0, FALSE), "main")

(***************************************************************************)
(* The state machine: one call of the hook at a time                       *)
(***************************************************************************)

\* the clients a screen shows after a successful load of store d
Loaded(d) == LET l == loadClients(d, 0).value IN {l[i] : i \in 1..Len(l)}

\* number of statements of a transfer of client c
TransferStatements(c) == 4 + Len(c.frais) + Len(c.telephones)

\* the call that has just ended is recorded and counted; found: the identifier
\* it was given named a record of the store when it was made
Ended(op, store, found, r) ==
  /\ calls < MaxCalls
  /\ calls' = calls + 1
  /\ last' = [op |-> op, store |-> store, found |-> found,
              threw |-> r.threw, error |-> r.error]
  /\ UNCHANGED <<pressed, applied, hook, connections, appClients, tasks, flags>>

\* useState(false) of isImporting, isExporting and formSubmitting: their
\* values, and the values the callbacks of the last render have captured
NoFlags == [isImporting |-> FALSE, isExporting |-> FALSE, formSubmitting |-> FALSE,
            rendered |-> [isImporting |-> FALSE, isExporting |-> FALSE]]

\* no function of src/utils has been applied
NotApplied == [function |-> "none", argument |-> undefined, result |-> <<>>]

\* the import button has not been pressed
NoPress == [store |-> "main", fileContent |-> NotJson, userConfirmed |-> FALSE,
            today |-> CHOOSE d \in Today : TRUE, fault |-> NoFault, outcome |-> "none",
            importedCount |-> 0, skippedCount |-> 0, invoked |-> <<>>]

\* both hooks initialised: open() and ensureSchema() on each file
Init ==
  /\ db = [s \in DatabaseName |-> ensureSchema(NewFile)]
  /\ last = [op |-> "useDatabase", store |-> "main", found |-> FALSE,
             threw |-> FALSE, error |-> "none"]
  /\ calls = 0
  /\ pressed = NoPress
  /\ applied = NotApplied
  /\ hook = [i \in Instances |-> Ready(FileOf(i))]
  /\ connections = [s \in DatabaseName |-> Cardinality({i \in Instances : FileOf(i) = s})]
  /\ appClients = <<>>
  /\ tasks = <<>>
  /\ flags = NoFlags

CreateClient(s) ==
  \E payload \in Payloads, noInsertId \in BOOLEAN :
  \E fault \in 0..(1 + Len(payload.frais) + Len(payload.telephones)) :
  \E r \in {createClient(db[s], payload, fault, noInsertId)} :
    /\ r.db.seq <= MaxId
    /\ db' = [db EXCEPT ![s] = r.db]
    /\ Ended("createClient", s, FALSE, r)

UpdateClient(s) ==
  \E clientId \in Ids, payload \in Payloads :
  \E fault \in 0..(3 + Len(payload.frais) + Len(payload.telephones)) :
  \E r \in {updateClient(db[s], clientId, payload, fault)} :
    /\ db' = [db EXCEPT ![s] = r.db]
    /\ Ended("updateClient", s, clientId \in ClientIds(db[s]), r)

DeleteClient(s) ==
  \E clientId \in Ids, fault \in 0..1 :
  \E r \in {deleteClient(db[s], clientId, fault)} :
    /\ db' = [db EXCEPT ![s] = r.db]
    /\ Ended("deleteClient", s, clientId \in ClientIds(db[s]), r)

ToggleClientStatus(s) ==
  \E clientId \in Ids, nextStatus \in BOOLEAN, fault \in 0..1 :
  \E r \in {toggleClientStatus(db[s], clientId, nextStatus, fault)} :
    /\ db' = [db EXCEPT ![s] = r.db]
    /\ Ended("toggleClientStatus", s, clientId \in ClientIds(db[s]), r)

ClearAllData(s) ==
  \E fault \in 0..3 :
  \E r \in {clearAllData(db[s], fault)} :
    /\ db' = [db EXCEPT ![s] = r.db]
    /\ Ended("clearAllData", s, FALSE, r)

LoadClients(s) ==
  \E fault \in 0..4 :
  \E r \in {loadClients(db[s], fault)} :
    /\ db' = [db EXCEPT ![s] = r.db]
    /\ Ended("loadClients", s, FALSE, r)

\* the card of a loaded client of main is archived
ArchiveClient ==
  \E clientData \in Loaded(db["main"]), noInsertId \in BOOLEAN :
  \E fault \in 0..TransferStatements(clientData) :
  \E r \in {archiveClient(db, clientData.id, clientData, fault, noInsertId)} :
    /\ r.dbs["archive"].seq <= MaxId
    /\ db' = r.dbs
    /\ Ended("archiveClient", "main", TRUE, r)

\* the card of a loaded client of archive is unarchived
UnarchiveClient ==
  \E clientData \in Loaded(db["archive"]), noInsertId \in BOOLEAN :
  \E fault \in 0..TransferStatements(clientData) :
  \E r \in {unarchiveClient(db, clientData.id, clientData, fault, noInsertId)} :
    /\ r.dbs["main"].seq <= MaxId
    /\ db' = r.dbs
    /\ Ended("unarchiveClient", "archive", TRUE, r)

Next ==
  \/ \E s \in DatabaseName : CreateClient(s)
  \/ \E s \in DatabaseName : UpdateClient(s)
  \/ \E s \in DatabaseName : DeleteClient(s)
  \/ \E s \in DatabaseName : ToggleClientStatus(s)
  \/ \E s \in DatabaseName : ClearAllData(s)
  \/ \E s \in DatabaseName : LoadClients(s)
  \/ ArchiveClient
  \/ UnarchiveClient

Spec == Init /\ [][Next]_vars

(***************************************************************************)
(* The import of a file into the active store                              *)
(***************************************************************************)

\* what the user and the backend decide in one press of the import button;
\* nothing can fail before the replacement is confirmed
Presses ==
  [fileContent : FileContents, userConfirmed : {FALSE}, fault : {NoFault}]
  \cup [fileContent : FileContents, userConfirmed : {TRUE}, fault : Faults]

\* the active store before the first press: new, or holding R2 and R1
Seeds == {ensureSchema(NewFile),
          createClient(createClient(ensureSchema(NewFile), R2, 0, FALSE).db, R1, 0, FALSE).db}

\* the clock shows one date during a run; the effect of App has loaded the
\* list of the active store
InitImport ==
  /\ \E seed \in Seeds : db = [s \in DatabaseName |->
                                 IF s = "main" THEN seed ELSE ensureSchema(NewFile)]
  /\ last = [op |-> "useDatabase", store |-> "main", found |-> FALSE,
             threw |-> FALSE, error |-> "none"]
  /\ calls = 0
  /\ \E today \in Today : pressed = [NoPress EXCEPT !.today = today]
  /\ applied = NotApplied
  /\ hook = [i \in Instances |-> Ready(FileOf(i))]
  /\ connections = [s \in DatabaseName |-> Cardinality({i \in Instances : FileOf(i) = s})]
  /\ appClients = loadClients(db["main"], 0).value
  /\ tasks = <<>>
  /\ flags = NoFlags

\* onLoadClients as App passes it to useClientData
onLoadClients(list, d) == list

\* handleImportPress() of the hook mounted on store s (ready, no import in
\* progress), up to its last statement
ImportPress(s) ==
  \E p \in Presses :
  \E r \in {handleImportPress(db[s], TRUE, FALSE, p.fileContent, p.userConfirmed,
                              pressed.today, p.fault, FALSE)} :
    /\ calls < MaxPresses
    /\ calls' = calls + 1
    /\ db' = [db EXCEPT ![s] = r.db]
    /\ last' = [op |-> "handleImportPress", store |-> s, found |-> FALSE,
                threw |-> FALSE, error |-> "none"]
    /\ pressed' = [store |-> s, fileContent |-> p.fileContent,
                   userConfirmed |-> p.userConfirmed, today |-> pressed.today,
                   fault |-> p.fault, outcome |-> r.outcome,
                   importedCount |-> r.importedCount,
                   skippedCount |-> r.skippedCount, invoked |-> r.invoked]
    /\ appClients' = IF \E i \in DOMAIN r.invoked : r.invoked[i] = "onLoadClients"
                     THEN onLoadClients(appClients, r.db) ELSE appClients
    /\ UNCHANGED <<applied, hook, connections, tasks, flags>>

\* the effect of App runs loadClients() after a render: the list becomes what
\* loadClients of the active store returns
LoadClientsEffect(s) ==
  /\ appClients # loadClients(db[s], 0).value
  /\ appClients' = loadClients(db[s], 0).value
  /\ last' = [op |-> "loadClients", store |-> s, found |-> FALSE,
              threw |-> FALSE, error |-> "none"]
  /\ UNCHANGED <<db, calls, pressed, applied, hook, connections, tasks, flags>>

\* the main store is the active one (activeDatabase starts as 'main')
NextImport ==
  \/ ImportPress("main")
  \/ LoadClientsEffect("main")

SpecImport == InitImport /\ [][NextImport]_vars

(***************************************************************************)
(* The shape resolver applied to parsed files                              *)
(***************************************************************************)

ContainerKeys == {"data", "results", "clientes", "clients"}

\* what a file holds under a container key
ContainerValues ==
  {Arr(<<>>), Arr(<<Amel, Cy>>), Arr(<<null, Eve, Num(0)>>),
   Obj([items |-> Arr(<<Amy>>)]), Obj([items |-> Arr(<<>>)]), Str(<<"x">>)}

\* the wrapper objects: any of the container keys, with any of these values,
\* beside a key that is no container
Wrappers ==
  UNION {{Obj(f @@ [total |-> Num(2)]) : f \in [keys -> ContainerValues]} :
         keys \in SUBSET ContainerKeys}

\* the values JSON.parse returns
ParsedInputs ==
  Wrappers \cup {null, Num(5), Str(<<"x">>), Bool(TRUE), Amel,
                 Arr(<<>>), Arr(<<Amel, Cy>>), Arr(<<null, Eve, Num(0)>>)}

InitResolver ==
  /\ db = [s \in DatabaseName |-> ensureSchema(NewFile)]
  /\ last = [op |-> "useDatabase", store |-> "main", found |-> FALSE,
             threw |-> FALSE, error |-> "none"]
  /\ calls = 0
  /\ pressed = NoPress
  /\ applied = NotApplied
  /\ hook = [i \in Instances |-> Ready(FileOf(i))]
  /\ connections = [s \in DatabaseName |-> Cardinality({i \in Instances : FileOf(i) = s})]
  /\ appClients = <<>>
  /\ tasks = <<>>
  /\ flags = NoFlags

\* normalizeParsedInput(raw)
NormalizeParsedInput ==
  \E raw \in ParsedInputs :
    /\ applied' = [function |-> "normalizeParsedInput", argument |-> raw,
                   result |-> normalizeParsedInput(raw)]
    /\ UNCHANGED <<db, last, calls, pressed, hook, connections, appClients, tasks, flags>>

NextResolver == NormalizeParsedInput

SpecResolver == InitResolver /\ [][NextResolver]_vars

(***************************************************************************)
(* formatDateForStorage applied to texts                                   *)
(***************************************************************************)

\* the two characters of a number 0..99
TwoDigits(n) == <<Digits[(n \div 10) + 1], Digits[(n % 10) + 1]>>

\* the text DD/MM/YYYY of three numbers
DdMmYyyy(day, month, year) ==
  TwoDigits(day) \o <<"/">> \o TwoDigits(month) \o <<"/">>
    \o TwoDigits(year \div 100) \o TwoDigits(year % 100)

\* the days, months and years written in the texts
WrittenDays == {0, 1, 15, 28, 29, 30, 31, 32, 99}
WrittenMonths == {0, 1, 2, 4, 12, 13}
WrittenYears == {50, 1900, 2023, 2024}

\* the values formatDateForStorage is given
DateTexts ==
  {Str(DdMmYyyy(d, m, y)) : d \in WrittenDays, m \in WrittenMonths, y \in WrittenYears}
    \cup {undefined, Str(<<>>), Str(<<" ">> \o DdMmYyyy(15, 1, 2024) \o <<" ">>),
          Str(<<"2", "0", "2", "4", "-", "0", "3", "-", "0", "1">>),
          Str(<<"1", "/", "2", "/", "2", "0", "2", "4">>), Str(<<"h", "i", "e", "r">>)}

InitDates ==
  /\ db = [s \in DatabaseName |-> ensureSchema(NewFile)]
  /\ last = [op |-> "useDatabase", store |-> "main", found |-> FALSE,
             threw |-> FALSE, error |-> "none"]
  /\ calls = 0
  /\ pressed = NoPress
  /\ applied = NotApplied
  /\ hook = [i \in Instances |-> Ready(FileOf(i))]
  /\ connections = [s \in DatabaseName |-> Cardinality({i \in Instances : FileOf(i) = s})]
  /\ appClients = <<>>
  /\ tasks = <<>>
  /\ flags = NoFlags

\* formatDateForStorage(value)
FormatDateForStorage ==
  \E value \in DateTexts, today \in Today, west \in BOOLEAN :
    /\ applied' = [function |-> "formatDateForStorage", argument |-> value,
                   today |-> today, west |-> west,
                   result |-> formatDateForStorage(value, today, west)]
    /\ UNCHANGED <<db, last, calls, pressed, hook, connections, appClients, tasks, flags>>

NextDates == FormatDateForStorage

SpecDates == InitDates /\ [][NextDates]_vars

(***************************************************************************)
(* withErrorHandling and retry of useErrorHandler                          *)
(***************************************************************************)

\* useState<ErrorState> of useErrorHandler
NoError == [hasError |-> FALSE, error |-> "none", retryCount |-> 0]

\* clearError()
clearError(errorState) == NoError

\* handleError(error, context)
handleError(errorState, error) == [hasError |-> TRUE, error |-> error, retryCount |-> 0]

\* opts.maxRetries ?? 3, with no default options
maxRetriesOf(options) == IF options.maxRetries = Undefined THEN 3 ELSE options.maxRetries

\* what one invocation of the operation does: it resolves with a value or
\* rejects with an error
OperationOutcomes ==
  [ok : {TRUE}, value : {"a", "b"}] \cup [ok : {FALSE}, value : {"io", "constraint"}]

\* withErrorHandling(operation, options) at the top of its loop, attempt = 0;
\* outcomes: what each invocation of the operation made so far did
withErrorHandling(function, options, errorState) ==
  [function |-> function, maxRetries |-> maxRetriesOf(options), attempt |-> 0,
   pc |-> "attempt", outcomes |-> <<>>, result |-> "none", errorState |-> errorState]

\* one pass of the loop body: setErrorState, await operation(), and the catch
attempt(task, outcome) ==
  LET tried == [task EXCEPT !.outcomes = Append(@, outcome),
                            !.errorState = [@ EXCEPT !.retryCount = task.attempt]]
  IN IF outcome.ok
     THEN [tried EXCEPT !.pc = "done", !.result = outcome.value,
                        !.errorState = IF task.attempt > 0 THEN clearError(@) ELSE @]
     ELSE IF task.attempt < task.maxRetries
     THEN [tried EXCEPT !.pc = "sleep"]
     ELSE [tried EXCEPT !.pc = "done", !.attempt = @ + 1, !.result = "null",
                        !.errorState = handleError(@, outcome.value)]

\* options.maxRetries of the calls explored; Undefined: no maxRetries given
RetryOptions == [maxRetries : (0..MaxRetries) \cup {Undefined}]

InitRetry ==
  /\ db = [s \in DatabaseName |-> ensureSchema(NewFile)]
  /\ last = [op |-> "useDatabase", store |-> "main", found |-> FALSE,
             threw |-> FALSE, error |-> "none"]
  /\ calls = 0
  /\ pressed = NoPress
  /\ applied = NotApplied
  /\ hook = [i \in Instances |-> Ready(FileOf(i))]
  /\ connections = [s \in DatabaseName |-> Cardinality({i \in Instances : FileOf(i) = s})]
  /\ appClients = <<>>
  /\ tasks = <<[withErrorHandling("none", [maxRetries |-> 0], NoError) EXCEPT !.pc = "done"]>>
  /\ flags = NoFlags

\* the state of the hook when no call is running
Idle == tasks[1].pc = "done"

\* withErrorHandling(operation, options) is called
WithErrorHandling ==
  /\ Idle
  /\ calls < MaxCalls
  /\ calls' = calls + 1
  /\ \E options \in RetryOptions :
       tasks' = <<withErrorHandling("withErrorHandling", options, tasks[1].errorState)>>
  /\ UNCHANGED <<db, last, pressed, applied, hook, connections, appClients, flags>>

\* retry(operation) is called
Retry ==
  /\ Idle
  /\ calls < MaxCalls
  /\ calls' = calls + 1
  /\ tasks' = <<withErrorHandling("retry", [maxRetries |-> 1], tasks[1].errorState)>>
  /\ UNCHANGED <<db, last, pressed, applied, hook, connections, appClients, flags>>

\* the operation is invoked and settles
Attempt ==
  /\ tasks[1].pc = "attempt"
  /\ \E outcome \in OperationOutcomes : tasks' = <<attempt(tasks[1], outcome)>>
  /\ UNCHANGED <<db, last, calls, pressed, applied, hook, connections, appClients, flags>>

\* the timer of sleep(retryDelay * 2^attempt) fires
Slept ==
  /\ tasks[1].pc = "sleep"
  /\ tasks' = <<[tasks[1] EXCEPT !.pc = "attempt", !.attempt = @ + 1]>>
  /\ UNCHANGED <<db, last, calls, pressed, applied, hook, connections, appClients, flags>>

NextRetry ==
  \/ WithErrorHandling
  \/ Retry
  \/ Attempt
  \/ Slept

SpecRetry == InitRetry /\ [][NextRetry]_vars

(***************************************************************************)
(* useClientFilters: search, status filter and sort of the list            *)
(***************************************************************************)

UpperCase == <<"A", "B", "C", "D", "E", "F", "G", "H", "I", "J", "K", "L", "M",
               "N", "O", "P", "Q", "R", "S", "T", "U", "V", "W", "X", "Y", "Z">>

LowerCase == <<"a", "b", "c", "d", "e", "f", "g", "h", "i", "j", "k", "l", "m",
               "n", "o", "p", "q", "r", "s", "t", "u", "v", "w", "x", "y", "z">>

\* text.toLowerCase(), for texts of ASCII characters
toLowerCase(chars) ==
  [i \in DOMAIN chars |->
     IF \E k \in DOMAIN UpperCase : UpperCase[k] = chars[i]
     THEN LowerCase[CHOOSE k \in DOMAIN UpperCase : UpperCase[k] = chars[i]]
     ELSE chars[i]]

\* text.includes(query)
includes(chars, query) ==
  \E i \in 0..(Len(chars) - Len(query)) : SubSeq(chars, i + 1, i + Len(query)) = query

RECURSIVE NumberToString(_)
\* n.toString() of a natural number
NumberToString(n) ==
  IF n < 10 THEN <<Digits[n + 1]>>
  ELSE NumberToString(n \div 10) \o <<Digits[(n % 10) + 1]>>

\* searchFilteredClients (first useMemo)
searchFilteredClients(list, searchQuery) ==
  LET query == toLowerCase(trim(searchQuery))
      Kept(client) ==
        \/ includes(toLowerCase(client.nom), query)
        \/ includes(NumberToString(client.page), query)
        \/ (client.note # <<>> /\ includes(toLowerCase(client.note), query))
  IN IF query = <<>> THEN list ELSE SelectSeq(list, Kept)

\* statusCounts (second useMemo)
statusCounts(searched) ==
  LET Finished(client) == client.statut
      InProgress(client) == ~client.statut
  IN [total |-> Len(searched), inProgress |-> Len(SelectSeq(searched, InProgress)),
      done |-> Len(SelectSeq(searched, Finished))]

\* the comparator of the sort: negative, a before b
comparePages(a, b, isSortAscending) ==
  IF isSortAscending THEN a.page - b.page ELSE b.page - a.page

RECURSIVE sort(_, _)
\* [...baseList].sort(comparator): a stable sort
sort(list, isSortAscending) ==
  IF list = <<>> THEN <<>>
  ELSE LET sorted == sort(SubSeq(list, 1, Len(list) - 1), isSortAscending)
           x == list[Len(list)]
           before == {i \in DOMAIN sorted : comparePages(sorted[i], x, isSortAscending) <= 0}
           k == IF before = {} THEN 0 ELSE CHOOSE i \in before : \A j \in before : j <= i
       IN SubSeq(sorted, 1, k) \o <<x>> \o SubSeq(sorted, k + 1, Len(sorted))

\* mutant: the status filter is not applied
filteredClientsAllStatuses(searched, statusFilter, isSortAscending) ==
  sort(searched, isSortAscending)

\* filteredClients (third useMemo)
filteredClients(searched, statusFilter, isSortAscending) ==
  LET Kept(client) == IF statusFilter = "done" THEN client.statut ELSE ~client.statut
      baseList == IF statusFilter = "all" THEN searched ELSE SelectSeq(searched, Kept)
  IN sort(baseList, isSortAscending)

\* what the hook returns for its props and its state
useClientFilters(list, searchQuery, statusFilter, isSortAscending) ==
  LET searched == searchFilteredClients(list, searchQuery)
  IN [clients |-> list, searchQuery |-> searchQuery, statusFilter |-> statusFilter,
      isSortAscending |-> isSortAscending,
      searchFilteredClients |-> searched,
      statusCounts |-> statusCounts(searched),
      filteredClients |-> filteredClients(searched, statusFilter, isSortAscending)]

\* clients of the lists given to the hook
Alice == [id |-> 1, nom |-> <<"A", "l", "i">>, page |-> 10, note |-> <<"V", "I", "P">>,
          statut |-> TRUE]
Bob == [id |-> 2, nom |-> <<"B", "o", "b">>, page |-> 25, note |-> <<>>, statut |-> FALSE]
Lia == [id |-> 3, nom |-> <<"l", "i", "a">>, page |-> 2, note |-> <<"a", "l", "i">>,
        statut |-> FALSE]
Ali2 == [id |-> 4, nom |-> <<"a", "l">>, page |-> 10, note |-> <<"5">>, statut |-> FALSE]

ClientLists ==
  {<<>>, <<Alice, Bob>>, <<Bob, Alice, Lia>>, <<Lia, Ali2, Bob, Alice>>,
   <<Alice, Lia, Ali2>>}

SearchQueries ==
  {<<>>, <<" ">>, <<"A", "l", "i">>, <<"a", "L">>, <<"2", "5">>, <<"2">>, <<"v", "i">>,
   <<" ", "l", "i", " ">>, <<"z">>, <<"1", "0">>}

StatusFilters == {"all", "in-progress", "done"}

InitFilters ==
  /\ db = [s \in DatabaseName |-> ensureSchema(NewFile)]
  /\ last = [op |-> "useDatabase", store |-> "main", found |-> FALSE,
             threw |-> FALSE, error |-> "none"]
  /\ calls = 0
  /\ pressed = NoPress
  /\ \E list \in ClientLists : applied = useClientFilters(list, <<>>, "all", TRUE)
  /\ hook = [i \in Instances |-> Ready(FileOf(i))]
  /\ connections = [s \in DatabaseName |-> Cardinality({i \in Instances : FileOf(i) = s})]
  /\ appClients = <<>>
  /\ tasks = <<>>
  /\ flags = NoFlags

\* setSearchQuery(query)
SetSearchQuery ==
  /\ \E query \in SearchQueries :
       applied' = useClientFilters(applied.clients, query, applied.statusFilter,
                                   applied.isSortAscending)
  /\ UNCHANGED <<db, last, calls, pressed, hook, connections, appClients, tasks, flags>>

\* setStatusFilter(filter)
SetStatusFilter ==
  /\ \E filter \in StatusFilters :
       applied' = useClientFilters(applied.clients, applied.searchQuery, filter,
                                   applied.isSortAscending)
  /\ UNCHANGED <<db, last, calls, pressed, hook, connections, appClients, tasks, flags>>

\* setIsSortAscending(ascending)
SetIsSortAscending ==
  /\ \E ascending \in BOOLEAN :
       applied' = useClientFilters(applied.clients, applied.searchQuery,
                                   applied.statusFilter, ascending)
  /\ UNCHANGED <<db, last, calls, pressed, hook, connections, appClients, tasks, flags>>

NextFilters ==
  \/ SetSearchQuery
  \/ SetStatusFilter
  \/ SetIsSortAscending

SpecFilters == InitFilters /\ [][NextFilters]_vars

(***************************************************************************)
(* The handlers between their awaits: import, export and form submission   *)
(***************************************************************************)

\* a handler that has started: the function, the await it is suspended at
\* ("done" once it has returned), and its local variables (values: the id and
\* the payload handleSubmitClientForm has built before its first await)
Started(function, pc) ==
  [function |-> function, pc |-> pc, fileContent |-> NotJson, candidates |-> <<>>,
   index |-> 0, importedCount |-> 0, skippedCount |-> 0, values |-> <<>>]

\* what settles an await: the name of what happened, the text of the file
\* that was read, the statement the backend fails (0: none), the user's answer
Event(name) == [name |-> name, fileContent |-> NotJson, fault |-> 0]

\* the files the picker is given
PickedFiles == {NotJson, Json(Arr(<<>>)), Json(Arr(<<Amel>>)), Json(Arr(<<Blank, Amel, Cy>>))}

\* the events that can settle the await the handler is suspended at
Events(task) ==
  CASE task.pc = "pick" -> {Event("picked"), Event("OPERATION_CANCELED"), Event("rejected")}
    [] task.pc = "keepLocalCopy" -> {Event("success"), Event("copyError")}
    [] task.pc = "readFile" ->
         {[Event("read") EXCEPT !.fileContent = f] : f \in PickedFiles} \cup {Event("rejected")}
    [] task.pc = "confirm" -> {Event("Confirmer"), Event("Annuler")}
    [] task.pc = "clearAllData" -> {[Event("settled") EXCEPT !.fault = n] : n \in 0..2}
    [] task.pc = "createClient" -> {[Event("settled") EXCEPT !.fault = n] : n \in 0..2}
    [] task.pc = "onLoadClients" -> {Event("resolved"), Event("rejected")}
    [] task.pc = "writeFile" -> {Event("resolved"), Event("rejected")}
    [] task.pc = "save" -> {Event("settled"), [Event("settled") EXCEPT !.fault = 1]}
    [] OTHER -> {}

\* those of the events with which the awaited call rejects at once, before any
\* statement has changed the store
Rejections(task) == {event \in Events(task) : event.name = "rejected" \/ event.fault = 1}

\* the handler has returned by the given exit; finally: its finally block has
\* set its busy flag back to false
Settled(task, d, list, exit) ==
  [task |-> [task EXCEPT !.pc = "done"], db |-> d, clients |-> list, finally |-> TRUE,
   exit |-> exit]

\* the handler is suspended at its next await
Suspended(task, d, list) ==
  [task |-> task, db |-> d, clients |-> list, finally |-> FALSE, exit |-> "none"]

\* normalizedClients, and for each candidate what the loop makes of it:
\* whether it is skipped and the payload it hands to createClient; both depend
\* only on the candidate and on the day
candidatesOf(fileContent, today) ==
  LET normalizedClients == IF JSONparseThrows(fileContent) THEN <<>>
                           ELSE normalizeParsedInput(JSONparse(fileContent))
  IN [i \in DOMAIN normalizedClients |->
        [skipped |-> Skipped(normalizedClients[i]),
         payload |-> importPayload(normalizedClients[i], today)]]

RECURSIVE nextCandidate(_)
\* the for loop from candidate task.index on, up to the next await: skipped
\* candidates are counted, the first one that is not skipped is handed to
\* createClient, and after the last one onLoadClients is awaited
nextCandidate(task) ==
  IF task.index > Len(task.candidates) THEN [task EXCEPT !.pc = "onLoadClients"]
  ELSE IF task.candidates[task.index].skipped
  THEN nextCandidate([task EXCEPT !.index = @ + 1, !.skippedCount = @ + 1])
  ELSE [task EXCEPT !.pc = "createClient"]

\* mutant: the cancelled picker returns without the finally block
resumeImportNoFinally(task, d, list, event, today) ==
  [task |-> [task EXCEPT !.pc = "done"], db |-> d, clients |-> list, finally |-> FALSE,
   exit |-> "none"]

\* handleImportPress from the await it is suspended at to its next await or
\* to its return
resumeImport(task, d, list, event, today) ==
  LET read == [task EXCEPT !.fileContent = event.fileContent,
                           !.candidates = candidatesOf(event.fileContent, today)]
      cleared == clearAllData(d, event.fault)
      created == createClient(d, task.candidates[task.index].payload, event.fault, FALSE)
      counted == IF created.threw THEN [task EXCEPT !.skippedCount = @ + 1, !.index = @ + 1]
                 ELSE [task EXCEPT !.importedCount = @ + 1, !.index = @ + 1]
  IN CASE task.pc = "pick" ->
            IF event.name = "picked"
            THEN Suspended([task EXCEPT !.pc = "keepLocalCopy"], d, list)
            ELSE Settled(task, d, list, event.name)
       [] task.pc = "keepLocalCopy" ->
            IF event.name = "success"
            THEN Suspended([task EXCEPT !.pc = "readFile"], d, list)
            ELSE Settled(task, d, list, event.name)
       [] task.pc = "readFile" ->
            IF event.name # "read" THEN Settled(task, d, list, event.name)
            ELSE IF JSONparseThrows(event.fileContent)
            THEN Settled(task, d, list, "invalid JSON")
            ELSE IF Len(read.candidates) = 0
            THEN Settled(task, d, list, "no candidate")
            ELSE Suspended([read EXCEPT !.pc = "confirm"], d, list)
       [] task.pc = "confirm" ->
            IF event.name = "Confirmer"
            THEN Suspended([task EXCEPT !.pc = "clearAllData"], d, list)
            ELSE Settled(task, d, list, event.name)
       [] task.pc = "clearAllData" ->
            IF cleared.threw THEN Settled(task, cleared.db, list, "clearAllData threw")
            ELSE Suspended(nextCandidate([task EXCEPT !.index = 1]), cleared.db, list)
       [] task.pc = "createClient" ->
            Suspended(nextCandidate(counted), created.db, list)
       [] OTHER ->
            IF event.name = "resolved"
            THEN Settled(task, d, onLoadClients(list, d),
                         IF task.skippedCount > 0 THEN "completed, some skipped"
                         ELSE "completed")
            ELSE Settled(task, d, list, "onLoadClients threw")

\* handleExportPress from its await of RNFS.writeFile to its return
resumeExport(task, d, list, event, today) ==
  Settled(task, d, list, IF event.name = "resolved" THEN "completed" ELSE "writeFile threw")

\* what the form holds when it is submitted; id 0: no id, a new client
NewValues == [id |-> 0, nom |-> <<" ", "c">>, page |-> <<"7">>, montantTotal |-> <<"9">>,
              montantRestant |-> <<>>, dateAjout |-> <<>>, note |-> <<>>, statut |-> FALSE,
              frais |-> <<>>, telephones |-> <<[numero |-> <<"0", "5">>]>>]

EditValues == [NewValues EXCEPT !.id = 1, !.nom = <<"a">>, !.page = <<"1">>,
                                !.dateAjout = DdMmYyyy(31, 2, 2024), !.statut = TRUE]

FormValues == {NewValues, EditValues, [NewValues EXCEPT !.nom = <<" ">>],
               [NewValues EXCEPT !.page = <<"x">>]}

\* the payload handleSubmitClientForm builds of the values of the form
submitPayload(values, today) ==
  LET amount(chars) == IF IsFinite(StringToNumber(chars)) THEN StringToNumber(chars) ELSE 0
      keptFee(fee) == Len(trim(fee.type)) > 0
      keptPhone(phone) == Len(trim(phone.numero)) > 0
      fees == SelectSeq(values.frais, keptFee)
      phones == SelectSeq(values.telephones, keptPhone)
  IN [nom |-> Text(trim(values.nom)),
      page |-> StringToNumber(values.page),
      note |-> Text(trim(values.note)),
      montantTotal |-> amount(values.montantTotal),
      montantRestant |-> amount(values.montantRestant),
      dateAjout |-> formatDateForStorage(Str(trim(values.dateAjout)), today, FALSE),
      statut |-> values.statut,
      frais |-> [i \in DOMAIN fees |->
                   [type |-> Text(trim(fees[i].type)), montant |-> amount(fees[i].montant)]],
      telephones |-> [i \in DOMAIN phones |-> [numero |-> Text(trim(phones[i].numero))]]]

\* handleSubmitClientForm is refused before it sets the submitting flag
submitRefused(values) ==
  \/ trim(values.nom) = <<>>
  \/ ~IsFinite(StringToNumber(values.page))

\* handleSubmitClientForm from the await it is suspended at to its next await
\* or to its return; its onLoadClients is the loadClients of App
resumeSubmit(task, d, list, event, today) ==
  LET saved == IF task.values.id # 0
               THEN updateClient(d, task.values.id, task.values.payload, event.fault)
               ELSE createClient(d, task.values.payload, event.fault, FALSE)
  IN IF task.pc = "save"
     THEN IF saved.threw THEN Settled(task, saved.db, list, "save threw")
          ELSE Suspended([task EXCEPT !.pc = "onLoadClients"], saved.db, list)
     ELSE IF event.name = "resolved"
     THEN Settled(task, d, loadClients(d, 0).value, "completed")
     ELSE Settled(task, d, list, "onLoadClients threw")

\* the busy flag of each handler
FlagOf(function) ==
  CASE function = "handleImportPress" -> "isImporting"
    [] function = "handleExportPress" -> "isExporting"
    [] OTHER -> "formSubmitting"

\* the main store holds R1, the list was loaded, no handler runs
InitTaps ==
  /\ db = [s \in DatabaseName |->
             IF s = "main" THEN createClient(ensureSchema(NewFile), R1, 0, FALSE).db
             ELSE ensureSchema(NewFile)]
  /\ last = [op |-> "useDatabase", store |-> "main", found |-> FALSE,
             threw |-> FALSE, error |-> "none"]
  /\ calls = 0
  /\ pressed = NoPress
  /\ applied = NotApplied
  /\ hook = [i \in Instances |-> Ready(FileOf(i))]
  /\ connections = [s \in DatabaseName |-> Cardinality({i \in Instances : FileOf(i) = s})]
  /\ appClients = loadClients(db["main"], 0).value
  /\ tasks = <<>>
  /\ flags = NoFlags

\* a handler that passed its gates starts: its flag is set and it is suspended
\* at its first await
Start(function, pc, values) ==
  /\ tasks' = Append(tasks, [Started(function, pc) EXCEPT !.values = values])
  /\ flags' = [flags EXCEPT ![FlagOf(function)] = TRUE]
  /\ last' = [op |-> function, store |-> "main", found |-> FALSE,
              threw |-> FALSE, error |-> "none"]

\* the handler returns at one of its gates
Refused(function, gate) ==
  /\ last' = [op |-> function, store |-> "main", found |-> FALSE,
              threw |-> FALSE, error |-> gate]
  /\ UNCHANGED <<tasks, flags>>

\* the import button is tapped: handleImportPress of the last render runs up
\* to its await of pick()
TapImport ==
  /\ calls < MaxPresses
  /\ calls' = calls + 1
  /\ IF flags.rendered.isImporting THEN Refused("handleImportPress", "importing")
     ELSE Start("handleImportPress", "pick", <<>>)
  /\ UNCHANGED <<db, pressed, applied, hook, connections, appClients>>

\* the export button is tapped: handleExportPress of the last render runs up
\* to its await of RNFS.writeFile
TapExport ==
  /\ calls < MaxPresses
  /\ calls' = calls + 1
  /\ IF flags.rendered.isExporting THEN Refused("handleExportPress", "exporting")
     ELSE IF Len(appClients) = 0 THEN Refused("handleExportPress", "no data")
     ELSE Start("handleExportPress", "writeFile", <<>>)
  /\ UNCHANGED <<db, pressed, applied, hook, connections, appClients>>

\* the form is submitted: handleSubmitClientForm runs up to its first await
SubmitClientForm ==
  /\ calls < MaxPresses
  /\ calls' = calls + 1
  /\ \E values \in FormValues :
       IF submitRefused(values) THEN Refused("handleSubmitClientForm", "validation")
       ELSE Start("handleSubmitClientForm", "save",
                  [id |-> values.id, payload |-> submitPayload(values, pressed.today)])
  /\ UNCHANGED <<db, pressed, applied, hook, connections, appClients>>

\* the component renders: its callbacks capture the current flags
Render ==
  /\ flags.rendered # [isImporting |-> flags.isImporting, isExporting |-> flags.isExporting]
  /\ flags' = [flags EXCEPT !.rendered = [isImporting |-> flags.isImporting,
                                          isExporting |-> flags.isExporting]]
  /\ UNCHANGED <<db, last, calls, pressed, applied, hook, connections, appClients, tasks>>

\* handler k continues with the event that settled its await: it runs up to
\* its next await, or returns through its finally block
Continue(k, event) ==
  \E r \in {CASE tasks[k].function = "handleImportPress" ->
                    resumeImport(tasks[k], db["main"], appClients, event, pressed.today)
               [] tasks[k].function = "handleExportPress" ->
                    resumeExport(tasks[k], db["main"], appClients, event, pressed.today)
               [] OTHER ->
                    resumeSubmit(tasks[k], db["main"], appClients, event, pressed.today)} :
    /\ tasks' = IF r.finally
                THEN SubSeq(tasks, 1, k - 1) \o SubSeq(tasks, k + 1, Len(tasks))
                ELSE [tasks EXCEPT ![k] = r.task]
    /\ db' = [db EXCEPT !["main"] = r.db]
    /\ appClients' = r.clients
    /\ flags' = IF r.finally THEN [flags EXCEPT ![FlagOf(tasks[k].function)] = FALSE]
                ELSE flags
    /\ last' = IF r.finally
               THEN [op |-> tasks[k].function, store |-> "main", found |-> FALSE,
                     threw |-> FALSE, error |-> r.exit]
               ELSE last

\* the await handler k is suspended at settles: the awaited call rejects at
\* once, or it settles after it has worked
Resume(k) ==
  /\ tasks[k].pc # "done"
  /\ \/ \E event \in Rejections(tasks[k]) : Continue(k, event)
     \/ \E event \in Events(tasks[k]) \ Rejections(tasks[k]) : Continue(k, event)
  /\ UNCHANGED <<calls, pressed, applied, hook, connections>>

ResumeSome == \E k \in DOMAIN tasks : Resume(k)

NextTaps ==
  \/ TapImport
  \/ TapExport
  \/ SubmitClientForm
  \/ Render
  \/ ResumeSome

SpecTaps == InitTaps /\ [][NextTaps]_vars

\* every await settles: the picker is closed, the dialog is answered, the file
\* system and SQLite reply
FairTaps == SpecTaps /\ WF_vars(ResumeSome)

(***************************************************************************)
(* handleExportPress of useClientData, and the import of what it wrote     *)
(***************************************************************************)

\* the characters of a text read from a column
Chars(text) == [i \in 1..Len(text) |-> SubSeq(text, i, i)]

\* JSON.parse(JSON.stringify(text)): a string, null for NULL
JsonText(text) == IF text = Nil THEN null ELSE Str(Chars(text))

\* JSON.parse(JSON.stringify(n)): NaN is written as null
JsonNumber(n) == IF IsFinite(n) THEN Num(n) ELSE null

\* new Date().toISOString()
toISOString(date) ==
  ToString(date.year) \o "-" \o pad(date.month) \o "-" \o pad(date.day) \o "T00:00:00.000Z"

\* mutant: the phones are exported as objects
exportedClientPhoneObjects(client) ==
  Obj([nom |-> JsonText(client.nom), page |-> JsonNumber(client.page),
       note |-> JsonText(client.note),
       montantTotal |-> JsonNumber(client.montantTotal),
       montantRestant |-> JsonNumber(client.montantRestant),
       dateAjout |-> JsonText(client.dateAjout), statut |-> Bool(client.statut),
       telephones |-> Arr([i \in DOMAIN client.telephones |->
                             Obj([numero |-> JsonText(client.telephones[i].numero)])]),
       frais |-> Arr([i \in DOMAIN client.frais |->
                        Obj([type |-> JsonText(client.frais[i].type),
                             montant |-> JsonNumber(client.frais[i].montant)])])])

\* one entry of payload.clients, as JSON.parse reads it back from the file
exportedClient(client) ==
  Obj([nom |-> JsonText(client.nom), page |-> JsonNumber(client.page),
       note |-> JsonText(client.note),
       montantTotal |-> JsonNumber(client.montantTotal),
       montantRestant |-> JsonNumber(client.montantRestant),
       dateAjout |-> JsonText(client.dateAjout), statut |-> Bool(client.statut),
       telephones |-> Arr([i \in DOMAIN client.telephones |->
                             JsonText(client.telephones[i].numero)]),
       frais |-> Arr([i \in DOMAIN client.frais |->
                        Obj([type |-> JsonText(client.frais[i].type),
                             montant |-> JsonNumber(client.frais[i].montant)])])])

\* the file handleExportPress writes for the list it was rendered with:
\* JSON.stringify(payload, null, 2)
exportPayload(clients, today) ==
  Json(Obj([exportedAt |-> JsonText(toISOString(today)), total |-> Num(Len(clients)),
            clients |-> Arr([i \in DOMAIN clients |-> exportedClient(clients[i])])]))

\* the export button is pressed (no export in progress) with a list that is
\* not empty: the file is written
ExportPress ==
  /\ Len(appClients) # 0
  /\ applied' = [function |-> "handleExportPress", argument |-> appClients,
                 result |-> exportPayload(appClients, pressed.today)]
  /\ applied' # applied
  /\ last' = [op |-> "handleExportPress", store |-> "main", found |-> FALSE,
              threw |-> FALSE, error |-> "none"]
  /\ UNCHANGED <<db, calls, pressed, hook, connections, appClients, tasks, flags>>

\* the file of the last export is picked and imported into store s: the
\* replacement is confirmed and the backend executes every statement
ImportExported(s) ==
  /\ applied.function = "handleExportPress"
  /\ calls < MaxPresses
  /\ \E r \in {handleImportPress(db[s], TRUE, FALSE, applied.result, TRUE, pressed.today,
                                 NoFault, FALSE)} :
       /\ calls' = calls + 1
       /\ db' = [db EXCEPT ![s] = r.db]
       /\ last' = [op |-> "handleImportPress", store |-> s, found |-> FALSE,
                threw |-> FALSE, error |-> "none"]
       /\ pressed' = [store |-> s, fileContent |-> applied.result, userConfirmed |-> TRUE,
                      today |-> pressed.today, fault |-> NoFault, outcome |-> r.outcome,
                      importedCount |-> r.importedCount,
                      skippedCount |-> r.skippedCount, invoked |-> r.invoked]
       /\ appClients' = onLoadClients(appClients, r.db)
       /\ UNCHANGED <<applied, hook, connections, tasks, flags>>

\* the stores an export starts from: those the fault-free import of each file
\* leaves, and the seeds of the import
ExportSeeds ==
  Seeds \cup {handleImportPress(ensureSchema(NewFile), TRUE, FALSE, fileContent, TRUE,
                                today, NoFault, FALSE).db
                : fileContent \in FileContents, today \in Today}

\* the application is mounted on the main store and has loaded its list
InitExport ==
  /\ \E seed \in ExportSeeds : db = [s \in DatabaseName |->
                                       IF s = "main" THEN seed ELSE ensureSchema(NewFile)]
  /\ last = [op |-> "useDatabase", store |-> "main", found |-> FALSE,
             threw |-> FALSE, error |-> "none"]
  /\ calls = 0
  /\ \E today \in Today : pressed = [NoPress EXCEPT !.today = today]
  /\ applied = NotApplied
  /\ hook = [i \in Instances |-> Ready(FileOf(i))]
  /\ connections = [s \in DatabaseName |-> Cardinality({i \in Instances : FileOf(i) = s})]
  /\ appClients = loadClients(db["main"], 0).value
  /\ tasks = <<>>
  /\ flags = NoFlags

\* the form is submitted for a new client and the list is reloaded
SubmitNewClient ==
  /\ calls < MaxPresses
  /\ \E values \in {v \in FormValues : v.id = 0 /\ ~submitRefused(v)} :
     \E r \in {createClient(db["main"], submitPayload(values, pressed.today), 0, FALSE)} :
       /\ ~r.threw
       /\ db' = [db EXCEPT !["main"] = r.db]
       /\ appClients' = loadClients(r.db, 0).value
  /\ calls' = calls + 1
  /\ last' = [op |-> "handleSubmitClientForm", store |-> "main", found |-> FALSE,
              threw |-> FALSE, error |-> "none"]
  /\ UNCHANGED <<pressed, applied, hook, connections, tasks, flags>>

NextExport ==
  \/ SubmitNewClient
  \/ LoadClientsEffect("main")
  \/ ExportPress
  \/ \E s \in DatabaseName : ImportExported(s)

SpecExport == InitExport /\ [][NextExport]_vars

(***************************************************************************)
(* Mounting and unmounting the application                                 *)
(***************************************************************************)

\* nothing is mounted and the two files are new
InitHooks ==
  /\ db = [s \in DatabaseName |-> NewFile]
  /\ last = [op |-> "none", store |-> "main", found |-> FALSE,
             threw |-> FALSE, error |-> "none"]
  /\ calls = 0
  /\ pressed = NoPress
  /\ applied = NotApplied
  /\ hook = [i \in Instances |-> Unmounted]
  /\ connections = [s \in DatabaseName |-> 0]
  /\ appClients = <<>>
  /\ tasks = <<>>
  /\ flags = NoFlags

\* the connections to file s that the initialisations with these outcomes open
Opened(after, s) ==
  LET opening == {i \in Instances : FileOf(i) = s /\ after[i].opened = 1}
  IN Cardinality(opening)

\* App is mounted: the effect of each of its useDatabase runs
MountApp ==
  /\ \A i \in Instances : ~hook[i].mounted
  /\ \E outcome \in [Instances -> Outcomes] :
     \E after \in {[i \in Instances |-> initializeDatabase(hook[i], FileOf(i), outcome[i])]} :
       /\ \A s \in DatabaseName : connections[s] + Opened(after, s) <= MaxConnections
       /\ hook' = [i \in Instances |-> after[i].hook]
       /\ connections' = [s \in DatabaseName |-> connections[s] + Opened(after, s)]
       /\ db' = [s \in DatabaseName |->
                   IF \E i \in Instances : FileOf(i) = s /\ outcome[i] = "ok"
                   THEN ensureSchema(db[s]) ELSE db[s]]
       /\ last' = [op |-> "useDatabase", store |-> "main", found |-> FALSE,
                   threw |-> FALSE, error |-> "none"]
  /\ UNCHANGED <<calls, pressed, applied, appClients, tasks, flags>>

\* App is unmounted: the cleanup of each effect runs
UnmountApp ==
  /\ \A i \in Instances : hook[i].mounted
  /\ hook' = [i \in Instances |-> cleanup(hook[i]).hook]
  /\ connections' =
       [s \in DatabaseName |->
          connections[s] - Cardinality({i \in Instances :
                                          FileOf(i) = s /\ cleanup(hook[i]).closed = 1})]
  /\ last' = [op |-> "cleanup", store |-> "main", found |-> FALSE,
              threw |-> FALSE, error |-> "none"]
  /\ UNCHANGED <<db, calls, pressed, applied, appClients, tasks, flags>>

\* a function of a mounted hook is called
CallHook(i) ==
  /\ hook[i].mounted
  /\ calls < MaxHookCalls
  /\ \E op \in Operations :
     \E r \in {useDatabaseCall(hook[i], FileOf(i), db, op)} :
       /\ \A s \in DatabaseName : r.dbs[s].seq <= MaxId
       /\ r.opened # "none" => connections[r.opened] < MaxConnections
       /\ db' = r.dbs
       /\ connections' = [s \in DatabaseName |->
                            IF s = r.opened THEN connections[s] + 1 ELSE connections[s]]
       /\ last' = [op |-> op, store |-> FileOf(i), found |-> FALSE,
                   threw |-> r.threw, error |-> r.error]
  /\ calls' = calls + 1
  /\ UNCHANGED <<pressed, applied, hook, appClients, tasks, flags>>

NextHooks ==
  \/ MountApp
  \/ UnmountApp
  \/ \E i \in Instances : CallHook(i)

SpecHooks == InitHooks /\ [][NextHooks]_vars


(***************************************************************************)
(* The functions of useDatabase, one statement at a time                   *)
(***************************************************************************)

\* no value is bound to the statement
NoValue == [none |-> TRUE]

\* one db.executeAsync(sql, [value])
Statement(sql, value) == [sql |-> sql, value |-> value]

\* insertFees(db, clientId, fees): one awaited INSERT per fee
feeStatements(fees) == [i \in 1..Len(fees) |-> Statement("INSERT INTO frais", fees[i])]

\* insertPhones(db, clientId, phones): one awaited INSERT per phone
phoneStatements(phones) ==
  [i \in 1..Len(phones) |-> Statement("INSERT INTO telephones", phones[i])]

\* the statements a call of the function awaits one after the other
statementsOf(function, payload) ==
  CASE function = "loadClients" ->
         <<Statement("SELECT FROM clients", NoValue), Statement("SELECT FROM frais", NoValue),
           Statement("SELECT FROM telephones", NoValue)>>
    [] function = "createClient" ->
         <<Statement("INSERT INTO clients", payload)>>
           \o feeStatements(payload.frais) \o phoneStatements(payload.telephones)
    [] function = "updateClient" ->
         <<Statement("UPDATE clients", payload),
           Statement("DELETE FROM frais WHERE client_id", NoValue)>>
           \o feeStatements(payload.frais)
           \o <<Statement("DELETE FROM telephones WHERE client_id", NoValue)>>
           \o phoneStatements(payload.telephones)
    [] function = "deleteClient" -> <<Statement("DELETE FROM clients WHERE id", NoValue)>>
    [] OTHER ->
         <<Statement("DELETE FROM telephones", NoValue), Statement("DELETE FROM frais", NoValue),
           Statement("DELETE FROM clients", NoValue)>>

\* the functions called on the hook of the main store
AsyncOperations == {"loadClients", "createClient", "updateClient", "deleteClient",
                    "clearAllData"}

\* the payload each is called with: the form of the card of the first record
\* saved with other fees and no phone, or a new record
AsyncPayload(function) == IF function = "createClient" THEN R1 ELSE R3

\* a call suspended at its first executeAsync: db is the connection that
\* requireDb() returned, history the states of the store since the call
Call(function, connection, d) ==
  [function |-> function, db |-> connection,
   statements |-> statementsOf(function, AsyncPayload(function)),
   clientId |-> IF function = "createClient" THEN Undefined ELSE 1,
   clientRows |-> <<>>, fraisRows |-> <<>>, phoneRows |-> <<>>, history |-> {d}]

\* the first statement the call is waiting for is executed on store d
executeAsync(d, task) ==
  LET statement == Head(task.statements)
      rest == [task EXCEPT !.statements = Tail(@)]
      res == CASE statement.sql = "INSERT INTO clients" -> InsertClientRow(d, statement.value)
               [] statement.sql = "INSERT INTO frais" ->
                    InsertFeeRow(d, task.clientId, statement.value)
               [] statement.sql = "INSERT INTO telephones" ->
                    InsertPhoneRow(d, task.clientId, statement.value)
               [] statement.sql = "UPDATE clients" ->
                    UpdateClientRow(d, task.clientId, statement.value)
               [] statement.sql = "DELETE FROM frais WHERE client_id" ->
                    DeleteFeesOf(d, task.clientId)
               [] statement.sql = "DELETE FROM telephones WHERE client_id" ->
                    DeletePhonesOf(d, task.clientId)
               [] statement.sql = "DELETE FROM clients WHERE id" ->
                    DeleteClientRow(d, task.clientId)
               [] statement.sql = "DELETE FROM telephones" -> DeleteAllPhones(d)
               [] statement.sql = "DELETE FROM frais" -> DeleteAllFees(d)
               [] statement.sql = "DELETE FROM clients" -> DeleteAllClients(d)
               [] OTHER -> Done(d)
  IN [ok |-> res.ok, error |-> res.error, db |-> res.db,
      task |-> CASE statement.sql = "SELECT FROM clients" ->
                      [rest EXCEPT !.clientRows = OrderByPage(d.clients)]
                 [] statement.sql = "SELECT FROM frais" -> [rest EXCEPT !.fraisRows = d.frais]
                 [] statement.sql = "SELECT FROM telephones" ->
                      [rest EXCEPT !.phoneRows = d.telephones]
                 [] statement.sql = "INSERT INTO clients" ->
                      [rest EXCEPT !.clientId = ToNumber(res.insertId)]
                 [] OTHER -> rest]

\* the library refuses a statement on a closed connection
Refusal(d, task) == [ok |-> FALSE, error |-> "closed", db |-> d, task |-> task]

\* connection.close(): every holder of the connection sees it closed
close(connection) == [connection EXCEPT !.open = FALSE]

\* the application is mounted on a main store that holds one record with two
\* fees and a phone
InitAsync ==
  /\ db = [s \in DatabaseName |->
             IF s = "main" THEN createClient(ensureSchema(NewFile), R2, 0, FALSE).db
             ELSE ensureSchema(NewFile)]
  /\ last = [op |-> "useDatabase", store |-> "main", found |-> FALSE,
             threw |-> FALSE, error |-> "none"]
  /\ calls = 0
  /\ pressed = NoPress
  /\ applied = NotApplied
  /\ hook = [i \in Instances |-> Ready(FileOf(i))]
  /\ connections = [s \in DatabaseName |-> Cardinality({i \in Instances : FileOf(i) = s})]
  /\ appClients = loadClients(db["main"], 0).value
  /\ tasks = <<>>
  /\ flags = NoFlags

\* a function of the hook is called: requireDb(), then the synchronous part up
\* to the first await
CallAsync ==
  /\ calls < MaxAsyncCalls
  /\ calls' = calls + 1
  /\ \E function \in AsyncOperations :
       IF requireDbThrows(hook["App.mainDb"])
       THEN /\ last' = [op |-> function, store |-> "main", found |-> FALSE,
                        threw |-> TRUE, error |-> "Database not ready"]
            /\ UNCHANGED <<db, tasks>>
       ELSE /\ db' = IF function = "loadClients"
                     THEN [db EXCEPT !["main"] = ensureSchema(@)] ELSE db
            /\ tasks' = [k \in DOMAIN tasks |->
                           [tasks[k] EXCEPT !.history = @ \cup {db'["main"]}]]
                        \o <<Call(function, hook["App.mainDb"].dbRef, db'["main"])>>
            /\ last' = [op |-> function, store |-> "main", found |-> FALSE,
                        threw |-> FALSE, error |-> "suspended"]
  /\ UNCHANGED <<pressed, applied, hook, connections, appClients, flags>>

\* call k continues after its executeAsync has settled with r: it is suspended
\* at its next statement, or it returns or throws
Settle(k, r, error) ==
  LET seen(j) == tasks[j].history \cup {r.db}
      others == [j \in DOMAIN tasks |-> [tasks[j] EXCEPT !.history = seen(j)]]
      ends == ~r.ok \/ r.task.statements = <<>>
  IN /\ db' = [db EXCEPT !["main"] = r.db]
     /\ tasks' = IF ends
                 THEN SubSeq(others, 1, k - 1) \o SubSeq(others, k + 1, Len(others))
                 ELSE [others EXCEPT ![k] = [r.task EXCEPT !.history = seen(k)]]
     /\ last' = [op |-> tasks[k].function, store |-> "main", found |-> FALSE,
                 threw |-> ~r.ok,
                 error |-> IF error # "none" THEN error
                           ELSE IF ends THEN r.error ELSE "suspended"]
     /\ applied' = IF ends /\ r.ok /\ tasks[k].function = "loadClients"
                   THEN [function |-> "loadClients", argument |-> seen(k),
                         result |-> mapRowsToClients(r.task.clientRows, r.task.fraisRows,
                                                     r.task.phoneRows)]
                   ELSE applied

\* the statement call k is suspended at is executed on its open connection
StepAsync(k) ==
  /\ tasks[k].db.open
  /\ Settle(k, executeAsync(db["main"], tasks[k]), "none")
  /\ UNCHANGED <<calls, pressed, hook, connections, appClients, flags>>

\* call k issues its next statement on the connection it holds, which has been
\* closed: the library, which is not part of the repository, refuses the
\* statement or runs it
StepClosed(k) ==
  /\ ~tasks[k].db.open
  /\ \E r \in {Refusal(db["main"], tasks[k]), executeAsync(db["main"], tasks[k])} :
       Settle(k, r, "statement on a closed connection")
  /\ UNCHANGED <<calls, pressed, hook, connections, appClients, flags>>

\* the application is unmounted: the cleanup of each effect closes its
\* connection and clears its dbRef
CleanupAsync ==
  /\ \A i \in Instances : hook[i].mounted
  /\ hook' = [i \in Instances |-> cleanup(hook[i]).hook]
  /\ connections' = [s \in DatabaseName |-> 0]
  /\ tasks' = [k \in DOMAIN tasks |-> [tasks[k] EXCEPT !.db = close(@)]]
  /\ last' = [op |-> "cleanup", store |-> "main", found |-> FALSE,
              threw |-> FALSE, error |-> "none"]
  /\ UNCHANGED <<db, calls, pressed, applied, appClients, flags>>

\* the application is mounted again: each effect opens a new connection
MountAsync ==
  /\ \A i \in Instances : ~hook[i].mounted
  /\ hook' = [i \in Instances |-> initializeDatabase(hook[i], FileOf(i), "ok").hook]
  /\ connections' = [s \in DatabaseName |-> Cardinality({i \in Instances : FileOf(i) = s})]
  /\ last' = [op |-> "useDatabase", store |-> "main", found |-> FALSE,
              threw |-> FALSE, error |-> "none"]
  /\ UNCHANGED <<db, calls, pressed, applied, appClients, tasks, flags>>

NextAsync ==
  \/ CallAsync
  \/ \E k \in DOMAIN tasks : StepAsync(k)
  \/ \E k \in DOMAIN tasks : StepClosed(k)
  \/ CleanupAsync
  \/ MountAsync

SpecAsync == InitAsync /\ [][NextAsync]_vars

(***************************************************************************)
(* Properties                                                              *)
(***************************************************************************)

\* the transfers the screens can start in the current state: the function,
\* its source and destination, the loaded client and the backend's behaviour
Transfers ==
  UNION {{[src |-> "main", dst |-> "archive", clientData |-> c, fault |-> f,
           noInsertId |-> n, r |-> archiveClient(db, c.id, c, f, n)]
            : f \in 0..TransferStatements(c), n \in BOOLEAN} : c \in Loaded(db["main"])}
  \cup
  UNION {{[src |-> "archive", dst |-> "main", clientData |-> c, fault |-> f,
           noInsertId |-> n, r |-> unarchiveClient(db, c.id, c, f, n)]
            : f \in 0..TransferStatements(c), n \in BOOLEAN} : c \in Loaded(db["archive"])}

\* store d has a record with the name or the page of client c
HasNameOrPage(d, c) == \E row \in d.clients : row.nom = c.nom \/ row.page = c.page

\* C1: a transfer whose destination already holds a record with the
\* snapshot's name or page throws, with the duplicate error unless the
\* backend failed before the check, and leaves both stores as they were.
C1_DuplicateTransferWritesNothing ==
  \A t \in Transfers :
    HasNameOrPage(db[t.dst], t.clientData) =>
      /\ t.r.threw
      /\ t.r.dbs = db
      /\ t.fault \notin {1, 2} => t.r.error = "duplicate"

C1_Witness ==
  /\ last.op = "archiveClient"
  /\ last.error = "duplicate"
  /\ db["main"].clients # {}
  /\ db["archive"].clients # {}

\* store d holds client c whole: its record row and, under that row's id,
\* exactly the fee rows and the phone rows of c
HoldsWhole(d, c) ==
  \E x \in Loaded(d) : PayloadOf(x) = PayloadOf(c)

\* C2: a transfer changes the source store only after the destination holds
\* the whole record (row, every fee, every phone), and a transfer that throws,
\* at whatever statement, leaves the source store as it was.
C2_SourceDeletedLast ==
  \A t \in Transfers :
    /\ t.r.threw => t.r.dbs[t.src] = db[t.src]
    /\ t.r.dbs[t.src] # db[t.src] => HoldsWhole(t.r.dbs[t.dst], t.clientData)

C2_Witness ==
  /\ last.op = "unarchiveClient"
  /\ last.threw
  /\ last.error = "io"
  /\ db["main"].clients # {}
  /\ Len(db["main"].frais) = 1
  /\ db["archive"].clients # {}

\* store d has a record with the name and the page of client c
InStore(d, c) == \E row \in d.clients : row.nom = c.nom /\ row.page = c.page

\* the step just taken is the call t of a transfer
TransferStep(t) ==
  /\ last'.op = (IF t.src = "main" THEN "archiveClient" ELSE "unarchiveClient")
  /\ last'.threw = t.r.threw
  /\ last'.error = t.r.error
  /\ db' = t.r.dbs

\* C3: once a transfer has returned or thrown, the record it was about is in
\* exactly one of the two stores (a destination that already held the name or
\* the page set aside).
C3_ExactlyOneStore ==
  [][\A t \in Transfers :
       (TransferStep(t) /\ ~HasNameOrPage(db[t.dst], t.clientData)) =>
         (InStore(db'["main"], t.clientData) # InStore(db'["archive"], t.clientData))]_vars

\* the calls of createClient a caller can make on store s in the current state
Creates(s) ==
  UNION {{[payload |-> p, fault |-> f, noInsertId |-> n,
           r |-> createClient(db[s], p, f, n)]
            : f \in 0..(1 + Len(p.frais) + Len(p.telephones)), n \in BOOLEAN}
           : p \in Payloads}

\* C4: createClient with a name or a page that a record of the store already
\* has throws, with the constraint error unless the backend failed the
\* INSERT itself, and leaves the store as it was: same records, no fee or
\* phone row of the rejected payload.
C4_DuplicateCreateRejected ==
  \A s \in DatabaseName : \A c \in Creates(s) :
    HasNameOrPage(db[s], c.payload) =>
      /\ c.r.threw
      /\ c.r.db = db[s]
      /\ c.fault # 1 => c.r.error = "constraint"

C4_Witness ==
  /\ last.op = "createClient"
  /\ last.error = "constraint"
  /\ calls = 2
  /\ Cardinality(db[last.store].clients) = 1
  /\ \A s \in DatabaseName \ {last.store} : db[s].seq = 0

\* C5: no two records of a store share a name, and no two share a page.
C5_NameAndPageUnique ==
  \A s \in DatabaseName : \A r1, r2 \in db[s].clients :
    r1 # r2 => (r1.nom # r2.nom /\ r1.page # r2.page)

C5_Witness ==
  /\ last.op = "updateClient"
  /\ last.found
  /\ last.error = "constraint"
  /\ Cardinality(db[last.store].clients) = 2

\* C6: every fee row and every phone row of a store references a record of
\* that store.
C6_NoOrphanRows ==
  \A s \in DatabaseName :
    /\ \A i \in 1..Len(db[s].frais) : db[s].frais[i].clientId \in ClientIds(db[s])
    /\ \A i \in 1..Len(db[s].telephones) : db[s].telephones[i].clientId \in ClientIds(db[s])

C6_Witness ==
  /\ last.op = "updateClient"
  /\ ~last.found
  /\ last.threw
  /\ last.error = "constraint"
  /\ db[last.store].clients # {}

\* number of rows of the three relations of store d
RowCount(d) == Cardinality(d.clients) + Len(d.frais) + Len(d.telephones)

\* C7: deleteClient(id) that returns removes the record of that id with its N
\* fee rows and its M phone rows, 1 + N + M rows in all, and every other
\* record is loaded afterwards as before; for an id that is not in the store
\* it returns, unless the backend fails the statement, and changes nothing.
C7_DeleteRemovesRecordAndChildren ==
  \A s \in DatabaseName : \A clientId \in Ids, fault \in 0..1 :
    \A r \in {deleteClient(db[s], clientId, fault)} :
      /\ (~r.threw /\ clientId \in ClientIds(db[s])) =>
           \E c \in Loaded(db[s]) :
             /\ c.id = clientId
             /\ Loaded(r.db) = Loaded(db[s]) \ {c}
             /\ RowCount(r.db) = RowCount(db[s]) - (1 + Len(c.frais) + Len(c.telephones))
      /\ clientId \notin ClientIds(db[s]) => (r.db = db[s] /\ (fault = 0 => ~r.threw))

C7_Witness ==
  /\ last.op = "deleteClient"
  /\ last.found
  /\ ~last.threw
  /\ Cardinality(db[last.store].clients) = 1
  /\ db[last.store].seq = 2

\* the number of occurrences of every element of a sequence
BagOfSeq(seq) ==
  [x \in {seq[i] : i \in 1..Len(seq)} |-> Cardinality({i \in 1..Len(seq) : seq[i] = x})]

Scalars(c) ==
  [nom |-> c.nom, page |-> c.page, note |-> c.note, montantTotal |-> c.montantTotal,
   montantRestant |-> c.montantRestant, dateAjout |-> c.dateAjout, statut |-> c.statut]

\* C8: after updateClient(id, r2) has returned for the id of a record of the
\* store, loadClients returns exactly one client of that id; its scalar
\* fields are those of r2 and its fees and phones are those of r2 as multisets.
C8_UpdateReplacesWholeRecord ==
  \A s \in DatabaseName : \A clientId \in ClientIds(db[s]), r2 \in Payloads :
    \A fault \in 0..(3 + Len(r2.frais) + Len(r2.telephones)) :
      \A u \in {updateClient(db[s], clientId, r2, fault)} :
        ~u.threw =>
          \A l \in {loadClients(u.db, 0)} :
            /\ ~l.threw
            /\ Cardinality({i \in 1..Len(l.value) : l.value[i].id = clientId}) = 1
            /\ \A i \in 1..Len(l.value) :
                 l.value[i].id = clientId =>
                   /\ Scalars(l.value[i]) = Scalars(r2)
                   /\ BagOfSeq(l.value[i].frais) = BagOfSeq(r2.frais)
                   /\ BagOfSeq(l.value[i].telephones) = BagOfSeq(r2.telephones)

C8_Witness ==
  /\ last.op = "updateClient"
  /\ last.found
  /\ ~last.threw
  /\ Len(db[last.store].frais) = 2
  /\ calls = 2

\* C9: updateClient with an identifier that names no record of the store
\* throws.
C9_UnknownIdRejected ==
  (last.op = "updateClient" /\ ~last.found) => last.threw

\* the step just taken is the call c of createClient on store s
CreateStep(s, c) ==
  /\ last'.op = "createClient"
  /\ last'.store = s
  /\ last'.threw = c.r.threw
  /\ last'.error = c.r.error
  /\ db' = [db EXCEPT ![s] = c.r.db]

\* C10: after createClient has returned or thrown, the store either is as it
\* was or holds the whole payload: one more record, loaded with exactly the
\* fees and phones of the payload.
C10_CreateAllOrNothing ==
  [][\A s \in DatabaseName : \A c \in Creates(s) :
       CreateStep(s, c) =>
         \/ db'[s] = db[s]
         \/ /\ HoldsWhole(db'[s], c.payload)
            /\ RowCount(db'[s]) =
                 RowCount(db[s]) + 1 + Len(c.payload.frais) + Len(c.payload.telephones)]_vars

(***************************************************************************)
(* The import                                                              *)
(***************************************************************************)

\* the candidates of the file of the last press
Candidates ==
  IF JSONparseThrows(pressed.fileContent) THEN <<>>
  ELSE normalizeParsedInput(JSONparse(pressed.fileContent))

\* the payload the import makes of candidate i
PayloadOfCandidate(i) == importPayload(Candidates[i], pressed.today)

\* the candidates that reach createClient
Accepted == {i \in DOMAIN Candidates : ~Skipped(Candidates[i])}

\* the store the last press worked on
Target == db[pressed.store]

\* C11: clearAllData and createClient are invoked only after the file parsed
\* as JSON, then the resolver returned a candidate, then the user confirmed;
\* a press stopped at one of the three gates invokes no function of the store
\* and leaves the store exactly as it was.
C11_GatesBeforeDestruction ==
  [][last'.op = "handleImportPress" =>
       LET p == pressed'
           parsed == ~JSONparseThrows(p.fileContent)
           resolved == parsed /\ Len(normalizeParsedInput(JSONparse(p.fileContent))) >= 1
           confirmed == resolved /\ p.userConfirmed
       IN /\ p.invoked # <<>> => confirmed
          /\ ~confirmed => db' = db /\ p.invoked = <<>>
          /\ ~parsed => p.outcome = "invalid JSON"
          /\ (parsed /\ ~resolved) => p.outcome = "no candidate"
          /\ (resolved /\ ~p.userConfirmed) => p.outcome = "cancelled"]_vars

\* a file with candidates was refused at the confirmation and the records of
\* the store are still there
C11_Witness ==
  /\ pressed.outcome = "cancelled"
  /\ Len(Candidates) >= 1
  /\ Target.clients # {}

\* candidates i and j ask for the same name or the same page
Collide(i, j) ==
  \/ PayloadOfCandidate(i).nom = PayloadOfCandidate(j).nom
  \/ PayloadOfCandidate(i).page = PayloadOfCandidate(j).page

\* candidate i reaches createClient and no earlier one asks for its name or page
FirstOfItsKind(i) ==
  i \in Accepted /\ \A j \in Accepted : j < i => ~Collide(i, j)

\* the backend fails no statement of the createClient of candidate i
NotFailed(i) ==
  pressed.fault.call # 1 + Cardinality({j \in Accepted : j <= i})

\* C12: in an import that reached its loop every candidate is counted, as
\* imported or as skipped, whatever was skipped or threw before it; the
\* candidates without name or page are among the skipped; a candidate that
\* reaches createClient, collides with no earlier one and is not failed by
\* the backend is in the store with its fees and phones; a later candidate
\* that collides with it is not stored; and when the backend fails nothing
\* the imported count is the number of records of the store.
C12_SkippedCandidatesDoNotStopTheLoop ==
  pressed.outcome = "done" =>
    /\ pressed.importedCount + pressed.skippedCount = Len(Candidates)
    /\ pressed.skippedCount >= Len(Candidates) - Cardinality(Accepted)
    /\ \A i \in Accepted :
         (FirstOfItsKind(i) /\ NotFailed(i)) => HoldsWhole(Target, PayloadOfCandidate(i))
    /\ \A i \in Accepted, j \in Accepted :
         (i < j /\ FirstOfItsKind(i) /\ NotFailed(i) /\ Collide(i, j)
            /\ PayloadOfCandidate(i) # PayloadOfCandidate(j))
           => ~HoldsWhole(Target, PayloadOfCandidate(j))
    /\ pressed.fault = NoFault => pressed.importedCount = Cardinality(Target.clients)

\* the file [NoPage, Amel, Amy, Zed]: one candidate without page, one that
\* collides with an earlier one, and a candidate created after both
C12_Witness ==
  /\ pressed.outcome = "done"
  /\ pressed.fault = NoFault
  /\ \E i \in DOMAIN Candidates : Skipped(Candidates[i])
  /\ \E i \in Accepted, j \in Accepted, k \in Accepted :
       /\ i < j /\ j < k
       /\ Collide(i, j)
       /\ ~HoldsWhole(Target, PayloadOfCandidate(j))
       /\ HoldsWhole(Target, PayloadOfCandidate(k))
  /\ pressed.importedCount = 2
  /\ pressed.skippedCount = 2

\* C13: after a confirmed import that completed, the store holds exactly the
\* records of the candidates counted as imported, each with its fees and
\* phones, and no other record; the file [Amel] imported with no failure of
\* the backend leaves one record, importedCount = 1 and skippedCount = 0.
C13_ImportReplacesEverything ==
  pressed.outcome = "done" =>
    /\ Cardinality(Target.clients) = pressed.importedCount
    /\ \A c \in Loaded(Target) : \E i \in Accepted : PayloadOf(c) = PayloadOfCandidate(i)
    /\ (pressed.fault = NoFault /\ pressed.fileContent = Json(Arr(<<Amel>>))) =>
         /\ Cardinality(Target.clients) = 1
         /\ pressed.importedCount = 1
         /\ pressed.skippedCount = 0

\* C14: no candidate that validateImportedClient rejects is in the store
\* after the import.
C14_ImportedCandidatesAreValidated ==
  pressed.outcome = "done" =>
    \A i \in Accepted :
      ~validateImportedClient(Candidates[i]) => ~InStore(Target, PayloadOfCandidate(i))

\* the add-date the candidate asks for: dateAjout, else dateAdded, else today
DateAsked(rawClient, today) ==
  IF Truthy(Get(rawClient, "dateAjout")) THEN Text(Get(rawClient, "dateAjout").v)
  ELSE IF Truthy(Get(rawClient, "dateAdded")) THEN Text(Get(rawClient, "dateAdded").v)
  ELSE formatDate(today)

\* C20: the record stored for a candidate has the candidate's dateAjout when
\* it gives one, else its dateAdded when it gives one, else the date of today
\* as DD/MM/YYYY.
C20_AddDateOfCandidate ==
  pressed.outcome = "done" =>
    \A i \in Accepted : \A row \in Target.clients :
      (FirstOfItsKind(i) /\ row.nom = PayloadOfCandidate(i).nom
         /\ row.page = PayloadOfCandidate(i).page)
        => row.dateAjout = DateAsked(Candidates[i], pressed.today)

\* the entries of a container that are not null, when it is an array
NonNull(container) ==
  LET Kept(entry) == entry.t \notin {"null", "undefined"}
  IN IF container.t = "array" THEN SelectSeq(container.v, Kept) ELSE <<>>

\* the value holds one of the container keys
IsWrapper(raw) == raw.t = "object" /\ DOMAIN raw.v \cap ContainerKeys # {}

\* C15: normalizeParsedInput of a wrapper object is the concatenation, in the
\* order data, data.items, results, clientes, clients, of the non-null
\* entries of the containers that are arrays; {clients: [a, b]}, {data: [a, b]}
\* and [a, b] give [a, b]; a wrapper whose containers are all empty arrays
\* gives the empty sequence.
C15_ResolverConcatenatesContainers ==
  (applied.function = "normalizeParsedInput" /\ IsWrapper(applied.argument)) =>
    LET raw == applied.argument
    IN applied.result = NonNull(Get(raw, "data")) \o NonNull(Get(Get(raw, "data"), "items"))
                        \o NonNull(Get(raw, "results")) \o NonNull(Get(raw, "clientes"))
                        \o NonNull(Get(raw, "clients"))

(***************************************************************************)
(* Loading and clearing                                                    *)
(***************************************************************************)

\* the client_id of the rows of a child relation that carry what a loaded
\* client shows, in the order of the relation
FeesOfRows(d, id) ==
  LET Mine(row) == row.clientId = id
      rows == SelectSeq(d.frais, Mine)
  IN [i \in DOMAIN rows |-> [type |-> rows[i].type, montant |-> rows[i].montant]]

PhonesOfRows(d, id) ==
  LET Mine(row) == row.clientId = id
      rows == SelectSeq(d.telephones, Mine)
  IN [i \in DOMAIN rows |-> [numero |-> rows[i].numero]]

\* C16: loadClients on a store nothing writes to returns one client per
\* record of the store and no other, in strictly ascending order of page,
\* each with the columns of its row, with the fee rows and the phone rows
\* whose client_id is its id and no other; a record without child rows is
\* returned with empty collections.
C16_LoadReturnsEveryRecordWithItsChildren ==
  \A s \in DatabaseName :
    LET loaded == loadClients(db[s], 0)
        clients == loaded.value
    IN /\ ~loaded.threw
       /\ loaded.db = db[s]
       /\ Len(clients) = Cardinality(db[s].clients)
       /\ {clients[i].id : i \in DOMAIN clients} = ClientIds(db[s])
       /\ \A i \in DOMAIN clients, j \in DOMAIN clients :
            i < j => clients[i].page < clients[j].page
       /\ \A i \in DOMAIN clients :
            /\ \E row \in db[s].clients :
                 /\ row.id = clients[i].id
                 /\ row.nom = clients[i].nom
                 /\ row.page = clients[i].page
                 /\ row.montantTotal = clients[i].montantTotal
                 /\ row.montantRestant = clients[i].montantRestant
                 /\ row.dateAjout = clients[i].dateAjout
                 /\ (row.statut = 1) = clients[i].statut
            /\ clients[i].frais = FeesOfRows(db[s], clients[i].id)
            /\ clients[i].telephones = PhonesOfRows(db[s], clients[i].id)

\* a store whose record of the lower id has the higher page and child rows,
\* and whose other record has no child row
C16_Witness ==
  \E s \in DatabaseName : \E a \in db[s].clients, b \in db[s].clients :
    /\ a.id < b.id /\ a.page > b.page
    /\ FeesOfRows(db[s], a.id) # <<>> /\ PhonesOfRows(db[s], a.id) # <<>>
    /\ FeesOfRows(db[s], b.id) = <<>> /\ PhonesOfRows(db[s], b.id) = <<>>
    /\ Len(loadClients(db[s], 0).value) = 2

\* C19 as stated: clearAllData deletes the fee rows, then the phone rows,
\* then the record rows, so that a call that has thrown after deleting phone
\* rows has left no fee row.
C19_FeesThenPhonesThenRecords ==
  [][\A s \in DatabaseName :
       (last'.op = "clearAllData" /\ last'.store = s /\ last'.threw
          /\ db'[s].telephones # db[s].telephones)
         => db'[s].frais = <<>>]_vars

\* C19: clearAllData deletes the phone rows, then the fee rows, then the
\* record rows: a call the backend fails at statement 1, 2 or 3 throws
\* having emptied nothing, the phone relation, or both child relations, the
\* record relation being untouched each time; a call that returns leaves the
\* three relations empty.
C19_PhonesThenFeesThenRecords ==
  \A s \in DatabaseName :
    LET first == clearAllData(db[s], 1)
        second == clearAllData(db[s], 2)
        third == clearAllData(db[s], 3)
        whole == clearAllData(db[s], 0)
    IN /\ first.threw /\ first.db = db[s]
       /\ second.threw
       /\ second.db = [db[s] EXCEPT !.telephones = <<>>]
       /\ third.threw
       /\ third.db = [db[s] EXCEPT !.telephones = <<>>, !.frais = <<>>]
       /\ ~whole.threw
       /\ whole.db.clients = {} /\ whole.db.frais = <<>> /\ whole.db.telephones = <<>>

\* a clearAllData has thrown after its first statement: the phone rows are
\* gone and the fee rows are still there
C19_Witness ==
  /\ last.op = "clearAllData"
  /\ last.threw
  /\ db[last.store].telephones = <<>>
  /\ db[last.store].frais # <<>>
  /\ db[last.store].clients # {}

\* the hooks whose initialisation threw
FailedHooks == {i \in Instances : hook[i].mounted /\ hook[i].error # "none"}

\* what a call made on a hook that is not ready answers, whatever the function
NotReadyAnswer ==
  [dbs |-> db, threw |-> TRUE, error |-> "Database not ready", opened |-> "none"]

(* C17: a useDatabase whose open() or ensureSchema() threw is not ready: its *)
(* isReady is false, its error is set, its dbRef holds no connection, and     *)
(* each of its eight functions throws 'Database not ready' and leaves both    *)
(* files and the connections as they were; and a hook whose isReady is true   *)
(* holds in dbRef an open connection to its file, on which the schema was     *)
(* ensured.                                                                   *)
C17_FailedInitialisationLeavesNotReady ==
  /\ \A i \in FailedHooks :
       /\ ~hook[i].isReady
       /\ hook[i].dbRef = NullRef
       /\ \A op \in Operations :
            useDatabaseCall(hook[i], FileOf(i), db, op) = NotReadyAnswer
  /\ \A i \in Instances :
       hook[i].isReady =>
         /\ hook[i].dbRef = [name |-> FileOf(i), open |-> TRUE, schema |-> TRUE]
         /\ connections[FileOf(i)] >= 1
         /\ db[FileOf(i)] = ensureSchema(db[FileOf(i)])

\* a function was called on a hook whose ensureSchema() threw, while a hook
\* of the other file was ready
C17_Witness ==
  /\ last.op \in Operations
  /\ last.error = "Database not ready"
  /\ \A i \in Instances : FileOf(i) = last.store => i \in FailedHooks
  /\ \E i \in FailedHooks : FileOf(i) = last.store /\ hook[i].error = "schema failed"
  /\ \E i \in Instances : hook[i].isReady

(* C18: each file has at most one open connection, counting those of every  *)
(* mounted useDatabase and those that archiveClient and unarchiveClient open *)
(* on their destination.                                                     *)
C18_OneConnectionPerStore ==
  \A s \in DatabaseName : connections[s] <= 1

(***************************************************************************)
(* Dates                                                                   *)
(***************************************************************************)

\* the text DD/MM/YYYY names a day of the calendar
IsCalendarDay(chars) ==
  LET day == DecimalValue(SubSeq(chars, 1, 2))
      month == DecimalValue(SubSeq(chars, 4, 5))
      year == DecimalValue(SubSeq(chars, 7, 10))
  IN month \in 1..12 /\ day \in 1..DaysInMonth(year, month)

(* C21: formatDateForStorage of a text DD/MM/YYYY that names no calendar day *)
(* (day past the end of the month, month outside 1..12) is today's date; of  *)
(* a text DD/MM/YYYY that names a calendar day it is that same text.         *)
C21_InvalidCalendarDateIsToday ==
  (applied.function = "formatDateForStorage" /\ Truthy(applied.argument)
     /\ MatchesDdMmYyyy(trim(applied.argument.v))) =>
    LET trimmed == trim(applied.argument.v)
    IN IF IsCalendarDay(trimmed)
       THEN applied.result = Text(trimmed)
       ELSE applied.result = formatDate(applied.today)

(* C22: when an import that ran its insert loop is reported as finished, the *)
(* list of clients in memory is what loadClients of the target store returns. *)
C22_ListReloadedBeforeReport ==
  (last.op = "handleImportPress" /\ pressed.outcome = "done") =>
    appClients = loadClients(db[pressed.store], 0).value

(***************************************************************************)
(* Retries                                                                 *)
(***************************************************************************)

\* the number of invocations of the operation the running call has made
Invocations == Len(tasks[1].outcomes)

\* the call has returned
Returned23 == tasks[1].function # "none" /\ tasks[1].pc = "done"

\* C23, without its last sentence: withErrorHandling invokes the operation at
\* most maxRetries + 1 times and never after a success; it returns the value
\* of the first success, or null after maxRetries + 1 failures, with hasError
\* true and error the last failure.
WithErrorHandlingBounded ==
  LET t == tasks[1]
      o == t.outcomes
  IN /\ Invocations <= t.maxRetries + 1
     /\ \A i \in DOMAIN o : o[i].ok => i = Len(o)
     /\ Returned23 =>
          IF o[Len(o)].ok
          THEN t.result = o[Len(o)].value
          ELSE /\ Invocations = t.maxRetries + 1
               /\ t.result = "null"
               /\ t.errorState.hasError
               /\ t.errorState.error = o[Len(o)].value

(* C23: for every maxRetries >= 0, withErrorHandling invokes the operation *)
(* at most maxRetries + 1 times, never again after a success, and returns   *)
(* the value of the first success, or null with hasError true and error the *)
(* last failure after maxRetries + 1 failures; retry(operation) makes a     *)
(* single attempt.                                                          *)
C23_RetryBoundedAndSingleAttempt ==
  /\ WithErrorHandlingBounded
  /\ tasks[1].function = "retry" => Invocations <= 1

(***************************************************************************)
(* Filters                                                                 *)
(***************************************************************************)

\* the client matches the search query: the query without its surrounding
\* white space is empty, or is, case ignored, a part of the name, of the page
\* written in decimal, or of the note
MatchesQuery(client, searchQuery) ==
  LET q == toLowerCase(trim(searchQuery))
      PartOf(text) == \E i \in 1..Len(text) : \E j \in i..Len(text) :
                        toLowerCase(SubSeq(text, i, j)) = q
  IN q = <<>> \/ PartOf(client.nom) \/ PartOf(NumberToString(client.page))
       \/ PartOf(client.note)

\* the client passes the status filter
MatchesStatus(client, statusFilter) ==
  \/ statusFilter = "all"
  \/ statusFilter = "done" /\ client.statut
  \/ statusFilter = "in-progress" /\ ~client.statut

\* the positions of list whose client satisfies both
Selected(list, searchQuery, statusFilter) ==
  {i \in DOMAIN list : MatchesQuery(list[i], searchQuery)
                         /\ MatchesStatus(list[i], statusFilter)}

(* C24: filteredClients holds exactly the clients of the list that match the *)
(* search query and the status filter, ordered by page, ascending or         *)
(* descending as isSortAscending says; statusCounts counts the clients that  *)
(* match the search query whatever the status filter, and its total is       *)
(* inProgress + done.                                                        *)
C24_FilteredClientsExact ==
  LET f == applied.filteredClients
      list == applied.clients
      chosen == Selected(list, applied.searchQuery, applied.statusFilter)
      searched == Selected(list, applied.searchQuery, "all")
  IN /\ \E where \in [DOMAIN f -> chosen] :
          /\ \A i, j \in DOMAIN f : i # j => where[i] # where[j]
          /\ \A i \in DOMAIN f : f[i] = list[where[i]]
     /\ Len(f) = Cardinality(chosen)
     /\ \A i, j \in DOMAIN f :
          i < j => IF applied.isSortAscending THEN f[i].page <= f[j].page
                   ELSE f[i].page >= f[j].page
     /\ applied.statusCounts.total = Cardinality(searched)
     /\ applied.statusCounts.done = Cardinality({i \in searched : list[i].statut})
     /\ applied.statusCounts.inProgress = Cardinality({i \in searched : ~list[i].statut})
     /\ applied.statusCounts.total
          = applied.statusCounts.inProgress + applied.statusCounts.done

\* a query with spaces around it matches two clients of a list of four, one by
\* a name in capitals, and the in-progress filter keeps one of them
C24_Witness ==
  /\ applied.searchQuery = <<" ", "l", "i", " ">>
  /\ applied.statusFilter = "in-progress"
  /\ ~applied.isSortAscending
  /\ Len(applied.clients) = 4
  /\ Len(applied.filteredClients) = 1
  /\ applied.statusCounts.total = 2

(***************************************************************************)
(* The counters of an import                                               *)
(***************************************************************************)

\* every candidate of a completed import is counted once, imported or skipped
EveryCandidateCounted ==
  pressed.outcome = "done" =>
    pressed.importedCount + pressed.skippedCount = Len(Candidates)

(* C25: when an import completes after the confirmation, importedCount +   *)
(* skippedCount is the number of candidates and the target store holds     *)
(* exactly importedCount record rows: a skipped candidate, one whose        *)
(* createClient threw after inserting its record row included, has left no  *)
(* record row.                                                              *)
C25_CountersMatchTheStore ==
  (last.op = "handleImportPress" /\ pressed.outcome = "done") =>
    /\ pressed.importedCount + pressed.skippedCount = Len(Candidates)
    /\ Cardinality(Target.clients) = pressed.importedCount

(***************************************************************************)
(* The handlers and their busy flags                                       *)
(***************************************************************************)

\* the invocations of handleImportPress that passed the gates and have not
\* returned
ImportsInProgress ==
  {k \in DOMAIN tasks : tasks[k].function = "handleImportPress" /\ tasks[k].pc # "done"}

(* C26: at most one import is in progress at any time: a handleImportPress  *)
(* invoked while another has not returned, before the next render included, *)
(* returns at its gate, so that two imports never interleave their          *)
(* clearAllData and createClient calls.                                     *)
C26_AtMostOneImportInProgress == Cardinality(ImportsInProgress) <= 1

(* C27: a busy flag that a handler has set to true is eventually set back   *)
(* to false, whatever the way the handler ends: isImporting of              *)
(* handleImportPress, isExporting of handleExportPress and the submitting    *)
(* flag of handleSubmitClientForm.                                          *)
C27_BusyFlagsAreSetBack ==
  /\ flags.isImporting ~> ~flags.isImporting
  /\ flags.isExporting ~> ~flags.isExporting
  /\ flags.formSubmitting ~> ~flags.formSubmitting

\* an import has started, has counted a candidate as skipped and has returned
\* after its loop, and no flag is left set
C27_Witness ==
  /\ last.op = "handleImportPress"
  /\ last.error = "completed, some skipped"
  /\ tasks = <<>>
  /\ ~flags.isImporting /\ ~flags.isExporting /\ ~flags.formSubmitting

(***************************************************************************)
(* Statements, connections and snapshots                                   *)
(***************************************************************************)

(* C28: no statement is issued on a connection that has been closed: a      *)
(* call suspended between two of its statements when the cleanup closes    *)
(* its connection issues no further statement on it.                        *)
C28_NoStatementOnClosedConnection == last.error # "statement on a closed connection"

\* the record with its children as the store d holds it
HeldIn(d, c) ==
  \E held \in Loaded(d) :
    held.id = c.id /\ held.frais = c.frais /\ held.telephones = c.telephones

(* C29: every record that loadClients returns carries the fees and the      *)
(* phones that the record had in one state of the store between the call   *)
(* and its return, whatever writes were interleaved with its three SELECTs. *)
C29_LoadReturnsASnapshot ==
  applied.function = "loadClients" =>
    \A i \in DOMAIN applied.result : \E d \in applied.argument : HeldIn(d, applied.result[i])

(***************************************************************************)
(* Export, then import                                                     *)
(***************************************************************************)

\* a record without its identifier, its fees and phones as multisets
UpToId(c) == Scalars(c) @@ [frais |-> BagOfSeq(c.frais), telephones |-> BagOfSeq(c.telephones)]

\* the file of the last export has just been imported
ExportedFileImported ==
  /\ applied.function = "handleExportPress"
  /\ last.op = "handleImportPress"
  /\ pressed.fileContent = applied.result

====
